---- MODULE Spec2Model ----
(***************************************************************************)
(* The frame loop of VulkanoApp: Application::run / drawFrame on the CPU,  *)
(* Pipeline::acquireImage / draw / present, Command::record and            *)
(* Render::updateFrameIndex, together with the GPU side of the three sync  *)
(* primitives (image-acquired semaphore, render-finished semaphore,        *)
(* CPU/GPU fence).  The CPU is one thread; the GPU and the presentation    *)
(* engine run asynchronously and are modelled by their own actions.        *)
(*                                                                         *)
(* Engine::initialize is one step of the frame-loop specification (Spec).  *)
(* Its construction functions are specified function by function, on what  *)
(* the Vulkan driver reports, in DeviceSpec (Device::listDevices,          *)
(* getQueueFamilies, createLogicalDevice) and SwapChainSpec                *)
(* (SwapChain::queryDetails and create).                                   *)
(***************************************************************************)
EXTENDS Integers, Sequences, FiniteSets, TLC

----------------------------------------------------------------------------
(* Bounds of the model *)

\* Width, in bits, of the uint32_t that updateFrameIndex narrows the frame
\* counter to.  The real width is 32; the model keeps the arithmetic and
\* scales the width so that the wrap-around is reached.
FrameIndexBits == 2
\* The number of drawFrame() calls a run may start.
MaxFrames == 6
\* The largest number of images vkGetSwapchainImagesKHR may report.
MaxImages == 4
\* The largest value NOW_MS is read as, in milliseconds since get_time_limit.
MaxElapsed == 17
\* The largest number of physical devices vkEnumeratePhysicalDevices reports.
MaxDevices == 2
\* The largest number of queue families of a physical device.
MaxFamilies == 3
\* The largest number of surface formats of the surface.
MaxFormats == 2
\* The largest number of present modes of the surface.
MaxPresentModes == 2

----------------------------------------------------------------------------
(* Program constants *)

MAX_BUFFERS == 3
FPS_RECORDS == 10
FPS_LIMIT_60 == 60
\* std::nullopt of std::optional<uint8_t>; forceRendererFPSLimit maps 0 to it
NO_FPS_LIMIT == 0

\* Device::m_physical_device's initial value; a handle is a positive number
VK_NULL_HANDLE == 0
\* enum SupportFeatures
NOONE == 0
GRAPHICS == 1
PRESENTS == 2
TRANSFERT == 4

\* 2^32 and 2^64 at the scaled width
UINT32_RANGE == 2 ^ FrameIndexBits
UINT64_RANGE == UINT32_RANGE * UINT32_RANGE

\* VK_FENCE_CREATE_SIGNALED_BIT in createSyncObjects
FenceUnsignaledAtCreation == "unsignaled"
FenceCreateState == "signaled"

----------------------------------------------------------------------------
(* The statements of the per-frame functions, in source order *)

acquireImage_ResetAfterAcquire ==
    <<"vkWaitForFences", "vkAcquireNextImageKHR", "vkResetFences">>
acquireImage_NoWait == <<"vkResetFences", "vkAcquireNextImageKHR">>
acquireImage_AcquireFirst ==
    <<"vkAcquireNextImageKHR", "vkWaitForFences", "vkResetFences">>
acquireImage == <<"vkWaitForFences", "vkResetFences", "vkAcquireNextImageKHR">>

draw == <<"vkResetCommandBuffer", "record", "vkQueueSubmit">>

present == <<"vkQueuePresentKHR">>

drawFrame_UpdateBeforePresent(limit) ==
    IF limit # NO_FPS_LIMIT
    THEN <<"get_time_limit">> \o acquireImage \o draw
         \o <<"updateFrameIndex">> \o present
         \o <<"recordDuration", "block_until", "incrementFrame">>
    ELSE acquireImage \o draw \o <<"updateFrameIndex">> \o present
         \o <<"recordDuration", "incrementFrame">>
drawFrame_CappedUpdatesAfterIncrement(limit) ==
    IF limit # NO_FPS_LIMIT
    THEN <<"get_time_limit">> \o acquireImage \o draw \o present
         \o <<"recordDuration", "block_until", "incrementFrame", "updateFrameIndex">>
    ELSE acquireImage \o draw \o present
         \o <<"recordDuration", "updateFrameIndex", "incrementFrame">>
drawFrame(limit) ==
    IF limit # NO_FPS_LIMIT
    THEN <<"get_time_limit">> \o acquireImage \o draw \o present
         \o <<"recordDuration", "block_until", "updateFrameIndex", "incrementFrame">>
    ELSE acquireImage \o draw \o present
         \o <<"recordDuration", "updateFrameIndex", "incrementFrame">>

\* Pipeline::draw's VkSubmitInfo and the fence handed to vkQueueSubmit
submit_info_NoWait ==
    [pWaitSemaphores   |-> {},
     pSignalSemaphores |-> {"m_sync_present_done"},
     fence             |-> "m_sync_cpu_gpu"]
submit_info ==
    [pWaitSemaphores   |-> {"m_sync_image_ready"},
     pSignalSemaphores |-> {"m_sync_present_done"},
     fence             |-> "m_sync_cpu_gpu"]

\* Pipeline::present's VkPresentInfoKHR
present_info == [pWaitSemaphores |-> {"m_sync_present_done"}]

\* Engine::initialize's construction steps, Render::createGraphicsPipeline's
\* steps in place
createGraphicsPipeline_CreateBeforeLayout ==
    <<"createShaderModule", "setupRenderPass", "create", "preconfigure",
      "transfert.createPool", "transfert.createBuffer", "graphics.createPool",
      "createVertexBuffer", "createIndexBuffer", "graphics.createBuffer">>
createGraphicsPipeline ==
    <<"createShaderModule", "setupRenderPass", "preconfigure", "create",
      "transfert.createPool", "transfert.createBuffer", "graphics.createPool",
      "createVertexBuffer", "createIndexBuffer", "graphics.createBuffer">>
initialize_steps_ImageViewsFirst ==
    <<"createGraphicsInstance", "createRenderDevice", "pickPhysicalDevice",
      "getQueueFamilies", "createLogicalDevice", "createAllocator",
      "createDescriptorPool", "createImageViews", "createSwapChain">>
    \o createGraphicsPipeline \o <<"createFramebuffers">>
initialize_steps ==
    <<"createGraphicsInstance", "createRenderDevice", "pickPhysicalDevice",
      "getQueueFamilies", "createLogicalDevice", "createAllocator",
      "createDescriptorPool", "createSwapChain", "createImageViews">>
    \o createGraphicsPipeline \o <<"createFramebuffers">>

Range(s) == {s[i] : i \in 1..Len(s)}

----------------------------------------------------------------------------
VARIABLES
    pc,                 \* where the CPU thread is in main/run
    ip,                 \* the next statement of drawFrame, or of ~Engine (0: in neither)
    engine_state,       \* Engine::m_state
    init_done,          \* the construction steps that returned Ok
    app_state,          \* Application::m_state
    windowShouldClose,  \* GLFW's close flag of the window
    m_FPS_limit,        \* Application::m_FPS_limit
    m_current_frame,    \* Application::m_current_frame (uint64_t)
    recorded_frames_index, \* Application::recorded_frames_index
    m_frame_index,      \* Render::m_frame_index (uint32_t)
    nb_swapchain_images, \* SwapChain::m_images.size()
    nb_framebuffers,    \* Render::m_framebuffers.size()
    m_graphics_command, \* Render::m_graphics_command is not nullptr
    command_buffer,     \* the graphics Command::m_buffer: its state and content
    m_vertex_buffer,    \* Pipeline::m_vertex_buffer
    m_index_buffer,     \* Pipeline::m_index_buffer
    m_sync_cpu_gpu,     \* the fence: "null", "signaled" or "unsignaled"
    semaphore,          \* the two semaphores: signaled or not
    acquire_pending,    \* acquisitions whose semaphore signal is still to come
    graphics_queue,     \* submissions the graphics queue has not completed
    presents_queue,     \* present requests the present queue has not executed
    elapsed,            \* NOW_MS as last read, in ms since get_time_limit
    wait_until_ms,      \* drawFrame's deadline, in units of 1/m_FPS_limit ms
    \* history of the run
    frames_started,     \* drawFrame() calls begun
    frames_done,        \* drawFrame() calls returned
    frame_ops,          \* the statements the current drawFrame() has executed
    in_flight,          \* a submission was made and its fence wait has not returned
    window_writers,     \* writers of m_frame_index while in_flight
    results,            \* what the latest acquire, record and submit returned
    gpu_log,            \* per GPU event, the frames it has happened for
    \* the build
    APPLE,              \* __APPLE__ is defined
    APPLICATION_FPS_LIMIT, \* Project::APPLICATION_FPS_LIMIT
    \* what Engine::initialize constructs
    devices,            \* listDevices: the devices vkEnumeratePhysicalDevices gave
    m_physical_device,  \* Device::m_physical_device
    m_queue_support,    \* Device::m_queue_support, one SupportFeatures mask per family
    queues,             \* createLogicalDevice: queueFamilyIndex of the entries filled
    m_graphics_queue_family_index,  \* Device::m_graphics_queue_family_index
    m_presents_queue_family_index,  \* Device::m_presents_queue_family_index
    m_transfert_queue_family_index, \* Device::m_transfert_queue_family_index
    m_logical_device,   \* Device::m_logical_device
    m_details,          \* SwapChain::m_details
    m_format,           \* SwapChain::m_format
    m_present_mode,     \* SwapChain::m_present_mode
    create_info,        \* SwapChain::create's VkSwapchainCreateInfoKHR
    m_swapchain,        \* SwapChain::m_swapchain
    returned,           \* the construction function last run and what it returned
    \* what the later construction steps create and what the destructors destroy
    m_graphics_pipeline, \* the Pipeline's m_shader_modules.size(), m_render_pass,
                        \* m_layout, m_pipeline, m_sync_image_ready, m_sync_present_done
    m_pool,             \* Command::m_pool of the graphics and of the transfert Command
    m_image_views,      \* Render::m_image_views, the handle in each entry
    m_framebuffers,     \* Render::m_framebuffers, the handle in each entry
    vk_live,            \* the native objects that have been created and not destroyed
    vk_destroyed,       \* the vkDestroy*/vmaDestroy* calls made, in order
    teardowns,          \* per component, the number of runs of its teardown
    exit_code           \* what main() returned

\* The build, and the objects Engine::initialize constructs
construction_vars ==
    <<APPLE, APPLICATION_FPS_LIMIT, devices, m_physical_device, m_queue_support,
      queues, m_graphics_queue_family_index, m_presents_queue_family_index,
      m_transfert_queue_family_index, m_logical_device, m_details, m_format,
      m_present_mode, create_info, m_swapchain, returned,
      m_graphics_pipeline, m_pool, m_image_views, m_framebuffers, vk_live,
      vk_destroyed, teardowns, exit_code>>

vars == <<pc, ip, engine_state, init_done, app_state, windowShouldClose,
          m_FPS_limit, m_current_frame, recorded_frames_index, m_frame_index,
          nb_swapchain_images, nb_framebuffers, m_graphics_command,
          command_buffer, m_vertex_buffer,
          m_index_buffer, m_sync_cpu_gpu, semaphore, acquire_pending,
          graphics_queue, presents_queue, elapsed, wait_until_ms,
          frames_started, frames_done, frame_ops, in_flight, window_writers,
          results, gpu_log, construction_vars>>

cpu_vars == <<pc, ip, engine_state, init_done, app_state, windowShouldClose,
              m_FPS_limit, m_current_frame, recorded_frames_index,
              m_frame_index, nb_swapchain_images, nb_framebuffers,
              m_graphics_command,
              command_buffer, m_vertex_buffer, m_index_buffer, wait_until_ms,
              frames_started, frames_done, frame_ops, in_flight,
              window_writers, results, construction_vars>>

NoResults == [acquire |-> "none", record |-> "none", submit |-> "none"]

\* VkSwapchainCreateInfoKHR before SwapChain::create fills it
NoCreateInfo ==
    [imageFormat |-> "none", imageColorSpace |-> "none", presentMode |-> "none",
     imageSharingMode |-> "none", queueFamilyIndexCount |-> 0,
     pQueueFamilyIndices |-> <<>>]

\* The Pipeline's members as declared in pipeline.hpp: null handles and null
\* pointers, no shader module
NoPipeline ==
    [m_shader_modules    |-> 0,
     m_render_pass       |-> "VK_NULL_HANDLE",
     m_layout            |-> "VK_NULL_HANDLE",
     m_pipeline          |-> "VK_NULL_HANDLE",
     m_sync_image_ready  |-> "null",
     m_sync_present_done |-> "null"]

\* The components with a teardown: SwapChain::~SwapChain, Pipeline::~Pipeline,
\* Command::~Command of the two Command objects, Device::Destroy
Components ==
    {"SwapChain", "Pipeline", "graphics Command", "transfert Command", "Device"}

\* Pipeline, Command and Render as constructed; nothing torn down, main()
\* has not returned.  Command() {} leaves m_pool, which has no initializer,
\* with an indeterminate value.
NothingTornDown ==
    /\ m_graphics_pipeline = NoPipeline
    /\ m_pool = [graphics |-> "undefined", transfert |-> "undefined"]
    /\ m_image_views = <<>>
    /\ m_framebuffers = <<>>
    /\ vk_destroyed = <<>>
    /\ teardowns = [c \in Components |-> 0]
    /\ exit_code = "none"

\* Device and SwapChain as constructed, before Engine::initialize
Constructed ==
    /\ NothingTornDown
    /\ vk_live = {}
    /\ devices = <<>>
    /\ m_physical_device = VK_NULL_HANDLE
    /\ m_queue_support = <<>>
    /\ queues = <<>>
    /\ m_graphics_queue_family_index = 0
    /\ m_presents_queue_family_index = 0
    /\ m_transfert_queue_family_index = 0
    /\ m_logical_device = "VK_NULL_HANDLE"
    /\ m_details = [minImageCount |-> 0, maxImageCount |-> 0, formats |-> <<>>,
                    present_modes |-> <<>>]
    /\ m_format = [format |-> "none", colorSpace |-> "none"]
    /\ m_present_mode = "none"
    /\ create_info = NoCreateInfo
    /\ m_swapchain = "VK_NULL_HANDLE"
    /\ returned = [fn |-> "none", result |-> "none", by |-> "none"]

\* Application, Render and Pipeline as constructed
ApplicationConstructed ==
    /\ ip = 0
    /\ app_state = "UNINITIALIZED"
    /\ windowShouldClose = FALSE
    /\ APPLICATION_FPS_LIMIT \in {NO_FPS_LIMIT, FPS_LIMIT_60}
    /\ m_FPS_limit = APPLICATION_FPS_LIMIT
    /\ m_current_frame = 1
    /\ recorded_frames_index = 0
    /\ m_frame_index = 0
    /\ nb_framebuffers = 0
    /\ m_graphics_command = TRUE
    /\ command_buffer = [state |-> "null", framebuffer |-> 0, frame |-> 0]
    /\ m_vertex_buffer = "VK_NULL_HANDLE"
    /\ m_index_buffer = "VK_NULL_HANDLE"
    /\ m_sync_cpu_gpu = "null"
    /\ semaphore = [m_sync_image_ready |-> FALSE, m_sync_present_done |-> FALSE]
    /\ acquire_pending = <<>>
    /\ graphics_queue = <<>>
    /\ presents_queue = <<>>
    /\ elapsed = 0
    /\ wait_until_ms = 0
    /\ frames_started = 0
    /\ frames_done = 0
    /\ frame_ops = <<>>
    /\ in_flight = FALSE
    /\ window_writers = <<>>
    /\ results = NoResults
    /\ gpu_log = [available |-> {}, colour_written |-> {}, completed |-> {},
                  presented |-> {}]

FrameLoopInit ==
    /\ ApplicationConstructed
    /\ nb_swapchain_images = 0

Init ==
    /\ pc = "initEngine"
    /\ engine_state = "UNINITIALIZED"
    /\ init_done = <<>>
    /\ FrameLoopInit
    /\ APPLE = FALSE
    /\ Constructed

----------------------------------------------------------------------------
(* Helpers of the CPU thread *)

Program == drawFrame(m_FPS_limit)

\* The statement the CPU thread is at
Step == IF pc = "drawFrame" /\ ip \in 1..Len(Program) THEN Program[ip]
        ELSE "none"

\* Go on n statements further; past the last one drawFrame() returns to run()
AdvanceBy_CancelOnClose(n) ==
    IF ip + n <= Len(Program) /\ ~windowShouldClose
    THEN /\ ip' = ip + n
         /\ pc' = pc
         /\ frames_done' = frames_done
    ELSE /\ ip' = 0
         /\ pc' = "loop"
         /\ frames_done' = frames_done + 1
AdvanceBy(n) ==
    IF ip + n <= Len(Program)
    THEN /\ ip' = ip + n
         /\ pc' = pc
         /\ frames_done' = frames_done
    ELSE /\ ip' = 0
         /\ pc' = "loop"
         /\ frames_done' = frames_done + 1

Executed == frame_ops' = Append(frame_ops, Step)

\* vkWaitForFences(device, 1, fence, VK_TRUE, UINT64_MAX) returns once the
\* fence is signaled
FenceWaitReturns_ZeroTimeout(f) == TRUE
FenceWaitReturns(f) == f = "signaled"

\* Render::updateFrameIndex: (uint32_t)current_frame % m_framebuffers.size()
updateFrameIndex_NoModulo(current_frame, size) == current_frame % UINT32_RANGE
updateFrameIndex(current_frame, size) == (current_frame % UINT32_RANGE) % size

\* static_cast<uint64_t>(wait_until_ms): the deadline is kept in units of
\* 1/m_FPS_limit ms (NOW * limit + 1000), the cast truncates it to whole ms
time_limit == wait_until_ms \div m_FPS_limit

----------------------------------------------------------------------------
(* Start-up: Application::initEngine and the head of Application::run *)

\* Engine::initialize: nothing when the state is INITIALIZED; otherwise the
\* steps run in order and the first error ends them
initialize ==
    /\ pc = "initEngine"
    /\ IF engine_state = "INITIALIZED"
       THEN UNCHANGED <<engine_state, init_done, m_sync_cpu_gpu,
                        nb_swapchain_images, nb_framebuffers, command_buffer>>
       ELSE \E n \in 0..Len(initialize_steps),
               image_count \in MAX_BUFFERS..MaxImages :
         LET done == Range(SubSeq(initialize_steps, 1, n)) IN
         /\ init_done' = SubSeq(initialize_steps, 1, n)
         /\ engine_state' = IF n = Len(initialize_steps) THEN "INITIALIZED"
                            ELSE "ERROR"
         /\ m_sync_cpu_gpu' = IF "preconfigure" \in done THEN FenceCreateState
                              ELSE m_sync_cpu_gpu
         /\ nb_swapchain_images' = IF "createSwapChain" \in done
                                   THEN image_count ELSE nb_swapchain_images
         /\ nb_framebuffers' = IF "createFramebuffers" \in done
                               THEN nb_swapchain_images' ELSE nb_framebuffers
         /\ command_buffer' = IF "graphics.createBuffer" \in done
                              THEN [command_buffer EXCEPT !.state = "initial"]
                              ELSE command_buffer
    /\ pc' = "run"
    /\ UNCHANGED <<ip, app_state, windowShouldClose, m_FPS_limit,
                   m_current_frame, recorded_frames_index, m_frame_index,
                   m_graphics_command, m_vertex_buffer, m_index_buffer,
                   semaphore, acquire_pending, graphics_queue, presents_queue,
                   elapsed, wait_until_ms, frames_started, frames_done,
                   frame_ops, in_flight, window_writers, results, gpu_log,
                   construction_vars>>

\* A further call of Engine::getInstance()->initialize(), after a call of it
\* has returned
callInitialize ==
    /\ pc = "run"
    /\ pc' = "initEngine"
    /\ UNCHANGED <<ip, engine_state, init_done, app_state, windowShouldClose,
                   m_FPS_limit, m_current_frame, recorded_frames_index,
                   m_frame_index, nb_swapchain_images, nb_framebuffers,
                   m_graphics_command, command_buffer, m_vertex_buffer,
                   m_index_buffer, m_sync_cpu_gpu, semaphore, acquire_pending,
                   graphics_queue, presents_queue, elapsed, wait_until_ms,
                   frames_started, frames_done, frame_ops, in_flight,
                   window_writers, results, gpu_log, construction_vars>>

\* Engine::initialize() called any number of times
EngineNext == initialize \/ callInitialize

\* Application::run: the switch on the engine state
run ==
    /\ pc = "run"
    /\ IF engine_state = "INITIALIZED"
       THEN app_state' = "RUNNING" /\ pc' = "loop"
       ELSE app_state' = "SHOULD_BE_CLOSED" /\ pc' = "closing"
    /\ UNCHANGED <<ip, engine_state, init_done, windowShouldClose, m_FPS_limit,
                   m_current_frame, recorded_frames_index, m_frame_index,
                   nb_swapchain_images, nb_framebuffers, m_graphics_command,
                   command_buffer,
                   m_vertex_buffer, m_index_buffer, m_sync_cpu_gpu, semaphore,
                   acquire_pending, graphics_queue, presents_queue, elapsed,
                   wait_until_ms, frames_started, frames_done, frame_ops,
                   in_flight, window_writers, results, gpu_log,
                   construction_vars>>

\* The loop condition of run(); a passing test is followed by glfwPollEvents(),
\* which is where GLFW raises the close flag, and by the call of drawFrame()
loop ==
    /\ pc = "loop"
    /\ IF ~windowShouldClose /\ app_state = "RUNNING"
       THEN /\ frames_started < MaxFrames
            /\ \E close \in BOOLEAN : windowShouldClose' = close
            /\ pc' = "drawFrame"
            /\ ip' = 1
            /\ frames_started' = frames_started + 1
            /\ frame_ops' = <<>>
            /\ elapsed' = 0
       ELSE /\ pc' = "waitIdle"
            /\ UNCHANGED <<ip, windowShouldClose, frames_started, frame_ops,
                           elapsed>>
    /\ UNCHANGED <<results, engine_state, init_done, app_state, m_FPS_limit,
                   m_current_frame, recorded_frames_index, m_frame_index,
                   nb_swapchain_images, nb_framebuffers, m_graphics_command,
                   command_buffer,
                   m_vertex_buffer, m_index_buffer, m_sync_cpu_gpu, semaphore,
                   acquire_pending, graphics_queue, presents_queue,
                   wait_until_ms, frames_done, in_flight, window_writers,
                   gpu_log, construction_vars>>

\* vkDeviceWaitIdle after the loop: returns once no queue has work left
vkDeviceWaitIdle_ReturnsAtOnce ==
    /\ pc = "waitIdle"
    /\ pc' = "closing"
    /\ UNCHANGED <<ip, engine_state, init_done, app_state, windowShouldClose,
                   m_FPS_limit, m_current_frame, recorded_frames_index,
                   m_frame_index, nb_swapchain_images, nb_framebuffers,
                   m_graphics_command,
                   command_buffer, m_vertex_buffer, m_index_buffer,
                   m_sync_cpu_gpu, semaphore, acquire_pending, graphics_queue,
                   presents_queue, elapsed, wait_until_ms, frames_started,
                   frames_done, frame_ops, in_flight, window_writers, results,
                   gpu_log, construction_vars>>
vkDeviceWaitIdle ==
    /\ pc = "waitIdle"
    /\ graphics_queue = <<>>
    /\ presents_queue = <<>>
    /\ pc' = "closing"
    /\ UNCHANGED <<ip, engine_state, init_done, app_state, windowShouldClose,
                   m_FPS_limit, m_current_frame, recorded_frames_index,
                   m_frame_index, nb_swapchain_images, nb_framebuffers,
                   m_graphics_command,
                   command_buffer, m_vertex_buffer, m_index_buffer,
                   m_sync_cpu_gpu, semaphore, acquire_pending, graphics_queue,
                   presents_queue, elapsed, wait_until_ms, frames_started,
                   frames_done, frame_ops, in_flight, window_writers, results,
                   gpu_log, construction_vars>>

\* The last statement of run()
closing ==
    /\ pc = "closing"
    /\ app_state' = "CLOSING"
    /\ pc' = "done"
    /\ UNCHANGED <<ip, engine_state, init_done, windowShouldClose, m_FPS_limit,
                   m_current_frame, recorded_frames_index, m_frame_index,
                   nb_swapchain_images, nb_framebuffers, m_graphics_command,
                   command_buffer,
                   m_vertex_buffer, m_index_buffer, m_sync_cpu_gpu, semaphore,
                   acquire_pending, graphics_queue, presents_queue, elapsed,
                   wait_until_ms, frames_started, frames_done, frame_ops,
                   in_flight, window_writers, results, gpu_log,
                   construction_vars>>

----------------------------------------------------------------------------
(* Application::drawFrame, one action per statement *)

\* What no statement of drawFrame() changes
setup_vars == <<engine_state, init_done, app_state, windowShouldClose,
                m_FPS_limit, nb_swapchain_images, nb_framebuffers, m_graphics_command,
                m_vertex_buffer, m_index_buffer, frames_started,
                construction_vars>>
gpu_vars == <<semaphore, acquire_pending, graphics_queue, presents_queue,
              gpu_log>>

\* utils::Timer::get_time_limit(1000.0f / m_FPS_limit): NOW_MS + wait_ms
get_time_limit ==
    /\ Step = "get_time_limit"
    /\ wait_until_ms' = elapsed * m_FPS_limit + 1000
    /\ AdvanceBy(1) /\ Executed
    /\ UNCHANGED <<setup_vars, gpu_vars, m_current_frame, recorded_frames_index,
                   m_frame_index, command_buffer, m_sync_cpu_gpu, elapsed,
                   in_flight, window_writers, results>>

\* Pipeline::acquireImage, first statement
vkWaitForFences ==
    /\ Step = "vkWaitForFences"
    /\ FenceWaitReturns(m_sync_cpu_gpu)
    /\ in_flight' = FALSE
    /\ AdvanceBy(1) /\ Executed
    /\ UNCHANGED <<setup_vars, gpu_vars, m_current_frame, recorded_frames_index,
                   m_frame_index, command_buffer, m_sync_cpu_gpu, elapsed,
                   wait_until_ms, window_writers, results>>

\* Pipeline::acquireImage, second statement
vkResetFences ==
    /\ Step = "vkResetFences"
    /\ m_sync_cpu_gpu' = "unsignaled"
    /\ AdvanceBy(1) /\ Executed
    /\ UNCHANGED <<setup_vars, gpu_vars, m_current_frame, recorded_frames_index,
                   m_frame_index, command_buffer, elapsed, wait_until_ms,
                   in_flight, window_writers, results>>

\* Pipeline::acquireImage, third statement: on success the index of one of the
\* swapchain's images is written through the reference getFrameIndex() returns
\* and the signal of m_sync_image_ready is pending; on an error neither happens
vkAcquireNextImageKHR ==
    /\ Step = "vkAcquireNextImageKHR"
    /\ \/ \E image \in 0..(nb_swapchain_images - 1) :
            /\ m_frame_index' = image
            /\ acquire_pending' = Append(acquire_pending, frames_started)
            /\ window_writers' = IF in_flight
                                 THEN Append(window_writers, "acquireImage")
                                 ELSE window_writers
            /\ results' = [results EXCEPT !.acquire = "VK_SUCCESS"]
       \/ /\ results' = [results EXCEPT !.acquire = "error"]
          /\ UNCHANGED <<m_frame_index, acquire_pending, window_writers>>
    /\ AdvanceBy(1) /\ Executed
    /\ UNCHANGED <<setup_vars, semaphore, graphics_queue, presents_queue,
                   gpu_log, m_current_frame, recorded_frames_index,
                   command_buffer, m_sync_cpu_gpu, elapsed, wait_until_ms,
                   in_flight>>

\* Pipeline::draw up to its vkResetCommandBuffer: without a graphics Command
\* object draw() returns an error at once
vkResetCommandBuffer ==
    /\ Step = "vkResetCommandBuffer"
    /\ IF m_graphics_command
       THEN /\ command_buffer' = [state |-> "initial", framebuffer |-> 0,
                                  frame |-> 0]
            /\ AdvanceBy(1)
            /\ UNCHANGED results
       ELSE /\ results' = [results EXCEPT !.submit = "not called"]
            /\ AdvanceBy(Len(draw))
            /\ UNCHANGED command_buffer
    /\ Executed
    /\ UNCHANGED <<setup_vars, gpu_vars, m_current_frame, recorded_frames_index,
                   m_frame_index, m_sync_cpu_gpu, elapsed, wait_until_ms,
                   in_flight, window_writers>>

\* Command::record, called by draw(), which drops its result
record_NoBoundCheck ==
    /\ Step = "record"
    /\ \E native \in {"VK_SUCCESS", "begin failed", "end failed"} :
         LET swapchain_index == m_frame_index IN
         IF native = "begin failed"
         THEN /\ command_buffer' = [state |-> "initial", framebuffer |-> 0,
                                    frame |-> 0]
              /\ results' = [results EXCEPT !.record = "error"]
         ELSE IF native = "end failed"
         THEN /\ command_buffer' = [state |-> "invalid",
                                    framebuffer |-> swapchain_index,
                                    frame |-> frames_started]
              /\ results' = [results EXCEPT !.record = "error"]
         ELSE /\ command_buffer' = [state |-> "executable",
                                    framebuffer |-> swapchain_index,
                                    frame |-> frames_started]
              /\ results' = [results EXCEPT !.record = "Ok"]
    /\ AdvanceBy(1) /\ Executed
    /\ UNCHANGED <<setup_vars, gpu_vars, m_current_frame, recorded_frames_index,
                   m_frame_index, m_sync_cpu_gpu, elapsed, wait_until_ms,
                   in_flight, window_writers>>
record ==
    /\ Step = "record"
    /\ \E native \in {"VK_SUCCESS", "begin failed", "end failed"} :
         LET swapchain_index == m_frame_index IN
         IF native = "begin failed"
         THEN /\ command_buffer' = [state |-> "initial", framebuffer |-> 0,
                                    frame |-> 0]
              /\ results' = [results EXCEPT !.record = "error"]
         ELSE IF swapchain_index >= nb_framebuffers
         THEN /\ command_buffer' = [state |-> "recording", framebuffer |-> 0,
                                    frame |-> 0]
              /\ results' = [results EXCEPT !.record = "error"]
         ELSE IF native = "end failed"
         THEN /\ command_buffer' = [state |-> "invalid",
                                    framebuffer |-> swapchain_index,
                                    frame |-> frames_started]
              /\ results' = [results EXCEPT !.record = "error"]
         ELSE /\ command_buffer' = [state |-> "executable",
                                    framebuffer |-> swapchain_index,
                                    frame |-> frames_started]
              /\ results' = [results EXCEPT !.record = "Ok"]
    /\ AdvanceBy(1) /\ Executed
    /\ UNCHANGED <<setup_vars, gpu_vars, m_current_frame, recorded_frames_index,
                   m_frame_index, m_sync_cpu_gpu, elapsed, wait_until_ms,
                   in_flight, window_writers>>

\* Pipeline::draw, the submission: accepted, the batch is queued with its
\* semaphores and its fence; refused, nothing is queued
vkQueueSubmit ==
    /\ Step = "vkQueueSubmit"
    /\ \/ /\ graphics_queue' = Append(graphics_queue,
                                      [frame |-> frames_started,
                                       info  |-> submit_info,
                                       stage |-> "queued"])
          /\ in_flight' = TRUE
          /\ window_writers' = <<>>
          /\ results' = [results EXCEPT !.submit = "VK_SUCCESS"]
       \/ /\ results' = [results EXCEPT !.submit = "error"]
          /\ UNCHANGED <<graphics_queue, in_flight, window_writers>>
    /\ AdvanceBy(1) /\ Executed
    /\ UNCHANGED <<setup_vars, semaphore, acquire_pending, presents_queue,
                   gpu_log, m_current_frame, recorded_frames_index,
                   m_frame_index, command_buffer, m_sync_cpu_gpu, elapsed,
                   wait_until_ms>>

\* Pipeline::present: the request waits on present_info's semaphores; present()
\* returns nothing, the result of vkQueuePresentKHR is dropped.  A request the
\* presentation engine rejects is still a queue operation whose semaphore wait
\* is executed.
vkQueuePresentKHR ==
    /\ Step = "vkQueuePresentKHR"
    /\ presents_queue' = Append(presents_queue,
                                [frame |-> frames_started,
                                 wait  |-> present_info.pWaitSemaphores])
    /\ AdvanceBy(1) /\ Executed
    /\ UNCHANGED <<results, setup_vars, semaphore, acquire_pending, graphics_queue,
                   gpu_log, m_current_frame, recorded_frames_index,
                   m_frame_index, command_buffer, m_sync_cpu_gpu, elapsed,
                   wait_until_ms, in_flight, window_writers>>

\* recorded_frames[recorded_frames_index] = ...; the index moves round the ring
recordDuration ==
    /\ Step = "recordDuration"
    /\ recorded_frames_index' = (recorded_frames_index + 1) % FPS_RECORDS
    /\ AdvanceBy(1) /\ Executed
    /\ UNCHANGED <<setup_vars, gpu_vars, m_current_frame, m_frame_index,
                   command_buffer, m_sync_cpu_gpu, elapsed, wait_until_ms,
                   in_flight, window_writers, results>>

\* utils::Timer::block_until, one turn of its loop: NOW_MS is read, and the
\* loop ends when it has reached time_limit
block_until ==
    /\ Step = "block_until"
    /\ \E now \in elapsed..MaxElapsed :
         /\ elapsed' = now
         /\ IF now >= time_limit
            THEN AdvanceBy(1) /\ Executed
            ELSE UNCHANGED <<pc, ip, frames_done, frame_ops>>
    /\ UNCHANGED <<setup_vars, gpu_vars, m_current_frame, recorded_frames_index,
                   m_frame_index, command_buffer, m_sync_cpu_gpu, wait_until_ms,
                   in_flight, window_writers, results>>

\* m_engine->m_render->updateFrameIndex(m_current_frame)
updateFrameIndexCall ==
    /\ Step = "updateFrameIndex"
    /\ m_frame_index' = updateFrameIndex(m_current_frame, nb_framebuffers)
    /\ window_writers' = IF in_flight
                         THEN Append(window_writers, "updateFrameIndex")
                         ELSE window_writers
    /\ AdvanceBy(1) /\ Executed
    /\ UNCHANGED <<setup_vars, gpu_vars, m_current_frame, recorded_frames_index,
                   command_buffer, m_sync_cpu_gpu, elapsed, wait_until_ms,
                   in_flight, results>>

\* ++m_current_frame
incrementFrame ==
    /\ Step = "incrementFrame"
    /\ m_current_frame' = (m_current_frame + 1) % UINT64_RANGE
    /\ AdvanceBy(1) /\ Executed
    /\ UNCHANGED <<setup_vars, gpu_vars, recorded_frames_index, m_frame_index,
                   command_buffer, m_sync_cpu_gpu, elapsed, wait_until_ms,
                   in_flight, window_writers, results>>

----------------------------------------------------------------------------
(* The GPU and the presentation engine *)

AllSignaled(sems) == \A x \in sems : semaphore[x]
SetSemaphores(sems, value) ==
    [x \in DOMAIN semaphore |-> IF x \in sems THEN value ELSE semaphore[x]]

\* The presentation engine lets go of the acquired image
ImageAvailable ==
    /\ acquire_pending # <<>>
    /\ semaphore' = SetSemaphores({"m_sync_image_ready"}, TRUE)
    /\ acquire_pending' = Tail(acquire_pending)
    /\ gpu_log' = [gpu_log EXCEPT !.available = @ \cup {Head(acquire_pending)}]
    /\ UNCHANGED <<cpu_vars, m_sync_cpu_gpu, graphics_queue, presents_queue,
                   elapsed>>

\* The batch at the head of the graphics queue reaches the colour attachment
\* output stage once the semaphores it waits on are signaled
GpuBeginColourOutput ==
    /\ graphics_queue # <<>>
    /\ LET batch == Head(graphics_queue) IN
       /\ batch.stage = "queued"
       /\ AllSignaled(batch.info.pWaitSemaphores)
       /\ semaphore' = SetSemaphores(batch.info.pWaitSemaphores, FALSE)
       /\ graphics_queue' = <<[batch EXCEPT !.stage = "executing"]>>
                            \o Tail(graphics_queue)
       /\ gpu_log' = [gpu_log EXCEPT !.colour_written = @ \cup {batch.frame}]
    /\ UNCHANGED <<cpu_vars, m_sync_cpu_gpu, acquire_pending, presents_queue,
                   elapsed>>

\* The batch completes: its semaphores and its fence are signaled
GpuComplete ==
    /\ graphics_queue # <<>>
    /\ LET batch == Head(graphics_queue) IN
       /\ batch.stage = "executing"
       /\ semaphore' = SetSemaphores(batch.info.pSignalSemaphores, TRUE)
       /\ m_sync_cpu_gpu' = IF batch.info.fence = "m_sync_cpu_gpu"
                            THEN "signaled" ELSE m_sync_cpu_gpu
       /\ graphics_queue' = Tail(graphics_queue)
       /\ gpu_log' = [gpu_log EXCEPT !.completed = @ \cup {batch.frame}]
    /\ UNCHANGED <<cpu_vars, acquire_pending, presents_queue, elapsed>>

\* The present queue executes the request at its head
PresentExecute ==
    /\ presents_queue # <<>>
    /\ LET request == Head(presents_queue) IN
       /\ AllSignaled(request.wait)
       /\ semaphore' = SetSemaphores(request.wait, FALSE)
       /\ presents_queue' = Tail(presents_queue)
       /\ gpu_log' = [gpu_log EXCEPT !.presented = @ \cup {request.frame}]
    /\ UNCHANGED <<cpu_vars, m_sync_cpu_gpu, acquire_pending, graphics_queue,
                   elapsed>>

----------------------------------------------------------------------------
Next ==
    \/ initialize \/ run \/ loop \/ vkDeviceWaitIdle \/ closing
    \/ get_time_limit \/ vkWaitForFences \/ vkResetFences
    \/ vkAcquireNextImageKHR \/ vkResetCommandBuffer \/ record
    \/ vkQueueSubmit \/ vkQueuePresentKHR \/ recordDuration \/ block_until
    \/ updateFrameIndexCall \/ incrementFrame
    \/ ImageAvailable \/ GpuBeginColourOutput \/ GpuComplete \/ PresentExecute

Spec == Init /\ [][Next]_vars

EngineSpec == Init /\ [][EngineNext]_vars

----------------------------------------------------------------------------
(* Engine::initialize, construction step by construction step *)

\* What no construction step changes
frame_vars == <<ip, app_state, windowShouldClose, m_FPS_limit, m_current_frame,
                recorded_frames_index, m_frame_index, nb_framebuffers,
                m_graphics_command, command_buffer, m_vertex_buffer,
                m_index_buffer, m_sync_cpu_gpu, semaphore, acquire_pending,
                graphics_queue, presents_queue, elapsed, wait_until_ms,
                frames_started, frames_done, frame_ops, in_flight,
                window_writers, results, gpu_log, APPLE, APPLICATION_FPS_LIMIT,
                m_graphics_pipeline, m_pool, m_image_views, m_framebuffers,
                vk_live, vk_destroyed, teardowns, exit_code>>
device_vars == <<devices, m_physical_device, m_queue_support, queues,
                 m_graphics_queue_family_index, m_presents_queue_family_index,
                 m_transfert_queue_family_index, m_logical_device>>
swapchain_vars == <<m_details, m_format, m_present_mode, create_info,
                    m_swapchain, nb_swapchain_images>>

\* The construction step Engine::initialize is at
InitStep ==
    IF /\ pc = "initEngine"
       /\ engine_state = "UNINITIALIZED"
       /\ Len(init_done) < Len(initialize_steps)
    THEN initialize_steps[Len(init_done) + 1]
    ELSE "none"

\* if (result.IsError()) { m_state = State::ERROR; return; }, and the last
\* statement of Engine::initialize after the last step
StepReturns(result, by) ==
    /\ returned' = [fn |-> InitStep, result |-> result, by |-> by]
    /\ IF result = "Ok"
       THEN /\ init_done' = Append(init_done, InitStep)
            /\ IF Len(init_done') = Len(initialize_steps)
               THEN engine_state' = "INITIALIZED" /\ pc' = "run"
               ELSE UNCHANGED <<engine_state, pc>>
       ELSE /\ engine_state' = "ERROR"
            /\ pc' = "run"
            /\ UNCHANGED init_done

\* Engine::createGraphicsInstance: vkCreateInstance succeeds or not
createGraphicsInstance ==
    /\ InitStep = "createGraphicsInstance"
    /\ \E result \in {"Ok", "Error"} : StepReturns(result, "vkCreateInstance")
    /\ UNCHANGED <<frame_vars, device_vars, swapchain_vars>>

\* Engine::createRenderDevice: Render::createSurface succeeds or not
createRenderDevice ==
    /\ InitStep = "createRenderDevice"
    /\ \E result \in {"Ok", "Error"} : StepReturns(result, "createSurface")
    /\ UNCHANGED <<frame_vars, device_vars, swapchain_vars>>

----------------------------------------------------------------------------
(* Device::listDevices *)

APPLE_M1_NAME == "Apple M1"

\* The VkPhysicalDeviceProperties of the devices: a discrete GPU, an
\* integrated GPU, and the integrated GPU of an Apple M1
PhysicalDeviceProperties ==
    {[deviceType |-> "VK_PHYSICAL_DEVICE_TYPE_DISCRETE_GPU",
      deviceName |-> "GeForce"],
     [deviceType |-> "VK_PHYSICAL_DEVICE_TYPE_INTEGRATED_GPU",
      deviceName |-> "UHD Graphics"],
     [deviceType |-> "VK_PHYSICAL_DEVICE_TYPE_INTEGRATED_GPU",
      deviceName |-> APPLE_M1_NAME]}

\* What vkEnumeratePhysicalDevices can fill the vector with: up to MaxDevices
\* handles, each with its VkPhysicalDeviceProperties
PhysicalDeviceLists ==
    UNION {{[i \in 1..n |-> [handle |-> i,
                             deviceType |-> properties[i].deviceType,
                             deviceName |-> properties[i].deviceName]]
            : properties \in [1..n -> PhysicalDeviceProperties]}
           : n \in 0..MaxDevices}

\* static isDeviceSuitable; NEEDS_GEOMETRY_SHADER is 0
isDeviceSuitable(device) ==
    IF device.handle = VK_NULL_HANDLE
    THEN FALSE
    ELSE LET is_apple_silicon == device.deviceName = APPLE_M1_NAME
             is_discrete_gpu  ==
                 device.deviceType = "VK_PHYSICAL_DEVICE_TYPE_DISCRETE_GPU"
         IN  IF APPLE THEN is_apple_silicon \/ is_discrete_gpu
                      ELSE is_discrete_gpu

\* The for loop of listDevices from the i-th device on: the handle it stores
RECURSIVE listDevices_loop(_, _)
listDevices_loop(list, i) ==
    IF i > Len(list) THEN VK_NULL_HANDLE
    ELSE IF isDeviceSuitable(list[i]) THEN list[i].handle
    ELSE listDevices_loop(list, i + 1)

\* Device::listDevices on the devices enumerated: its result and the value
\* m_physical_device has when it returns
listDevices_LastSuitable(list, physical_device) ==
    LET suitable == {i \in 1..Len(list) : isDeviceSuitable(list[i])} IN
    IF suitable = {}
    THEN [result |-> "Error", m_physical_device |-> physical_device]
    ELSE [result |-> "Ok",
          m_physical_device |->
              list[CHOOSE i \in suitable : \A j \in suitable : j <= i].handle]
listDevices(list, physical_device) ==
    IF Len(list) = 0
    THEN [result |-> "Error", m_physical_device |-> physical_device]
    ELSE IF listDevices_loop(list, 1) # VK_NULL_HANDLE
    THEN [result |-> "Ok", m_physical_device |-> listDevices_loop(list, 1)]
    ELSE [result |-> "Error", m_physical_device |-> physical_device]

\* Engine::pickPhysicalDevice, which is Device::listDevices
pickPhysicalDevice ==
    /\ InitStep = "pickPhysicalDevice"
    /\ \E list \in PhysicalDeviceLists :
         LET call == listDevices(list, m_physical_device) IN
         /\ devices' = list
         /\ m_physical_device' = call.m_physical_device
         /\ StepReturns(call.result, "listDevices")
    /\ UNCHANGED <<frame_vars, swapchain_vars, m_queue_support, queues,
                   m_graphics_queue_family_index, m_presents_queue_family_index,
                   m_transfert_queue_family_index, m_logical_device>>

----------------------------------------------------------------------------
(* Device::getQueueFamilies and Device::createLogicalDevice *)

\* What vkGetPhysicalDeviceQueueFamilyProperties and
\* vkGetPhysicalDeviceSurfaceSupportKHR can report: up to MaxFamilies families,
\* each with or without VK_QUEUE_GRAPHICS_BIT, present support and
\* VK_QUEUE_TRANSFER_BIT
QueueFamilyLists ==
    UNION {[1..n -> [graphics_supported  : BOOLEAN,
                     present_supported   : BOOLEAN,
                     transfert_supported : BOOLEAN]]
           : n \in 0..MaxFamilies}

\* mask & flag, for a flag of one bit
HasFeature(mask, flag) == (mask \div flag) % 2 = 1

\* The first loop of getQueueFamilies: m_queue_support[i] of a family; the
\* flags are distinct bits, so |= adds them
queueSupport(family) ==
    (IF family.graphics_supported THEN GRAPHICS ELSE NOONE)
    + (IF family.present_supported THEN PRESENTS ELSE NOONE)
    + (IF family.transfert_supported THEN TRANSFERT ELSE NOONE)

\* Device::getQueueFamilies on the families found: its result and the value
\* m_queue_support has when it returns
getQueueFamilies_of(found, queue_support) ==
    IF Len(found) = 0
    THEN [result |-> "Ok", m_queue_support |-> queue_support]
    ELSE LET support == [i \in 1..Len(found) |-> queueSupport(found[i])]
             supports(flag) ==
                 \E i \in 1..Len(found) : HasFeature(support[i], flag)
         IN  [result |-> IF ~supports(GRAPHICS) \/ ~supports(PRESENTS)
                            \/ ~supports(TRANSFERT)
                         THEN "Error" ELSE "Ok",
              m_queue_support |-> support]

getQueueFamilies ==
    /\ InitStep = "getQueueFamilies"
    /\ m_physical_device # VK_NULL_HANDLE
    /\ \E found \in QueueFamilyLists :
         LET call == getQueueFamilies_of(found, m_queue_support) IN
         /\ m_queue_support' = call.m_queue_support
         /\ StepReturns(call.result, "getQueueFamilies")
    /\ UNCHANGED <<frame_vars, swapchain_vars, devices, m_physical_device,
                   queues, m_graphics_queue_family_index,
                   m_presents_queue_family_index,
                   m_transfert_queue_family_index, m_logical_device>>

\* createLogicalDevice's supported_flags and the initial took_indices
supported_flags == <<GRAPHICS, PRESENTS, TRANSFERT>>
took_indices_init == <<-1, -1, -1>>

\* std::find(begin(took_indices), end(took_indices), first_index) != end
IsTaken(took_indices, index) ==
    \E k \in 1..Len(took_indices) : took_indices[k] = index

\* The inner for loop of createLogicalDevice from family i on (i counts from
\* 0, as in the source): the value first_index has after the loop.  The loop
\* assigns first_index = i in every turn, so that a loop that ends without a
\* break leaves the index of the last family in it.
RECURSIVE first_index_loop(_, _, _, _)
first_index_loop(support, took_indices, flag, i) ==
    IF ~IsTaken(took_indices, i) /\ HasFeature(support[i + 1], flag)
    THEN i
    ELSE IF i + 1 < Len(support)
    THEN first_index_loop(support, took_indices, flag, i + 1)
    ELSE i

first_index(support, took_indices, flag) ==
    IF Len(support) = 0 THEN 0
    ELSE first_index_loop(support, took_indices, flag, 0)

\* The for loop over supported_flags from role queue_index on (from 0): whether
\* it returned an error, how many roles it gave a family, and took_indices
RECURSIVE assignRoles(_, _, _)
assignRoles(support, took_indices, queue_index) ==
    IF queue_index = Len(supported_flags)
    THEN [result |-> "Ok", assigned |-> queue_index,
          took_indices |-> took_indices]
    ELSE LET index == first_index(support, took_indices,
                                  supported_flags[queue_index + 1])
             took  == [took_indices EXCEPT ![queue_index + 1] = index]
         IN  IF index >= Len(support)
             THEN [result |-> "Error", assigned |-> queue_index,
                   took_indices |-> took]
             ELSE assignRoles(support, took, queue_index + 1)

\* Device::createLogicalDevice: the roles, then vkCreateDevice, which succeeds
\* or not
createLogicalDevice ==
    /\ InitStep = "createLogicalDevice"
    /\ m_physical_device # VK_NULL_HANDLE
    /\ LET roles == assignRoles(m_queue_support, took_indices_init, 0) IN
       /\ queues' = SubSeq(roles.took_indices, 1, roles.assigned)
       /\ m_graphics_queue_family_index' =
              IF roles.assigned >= 1 THEN roles.took_indices[1]
              ELSE m_graphics_queue_family_index
       /\ m_presents_queue_family_index' =
              IF roles.assigned >= 2 THEN roles.took_indices[2]
              ELSE m_presents_queue_family_index
       /\ m_transfert_queue_family_index' =
              IF roles.assigned >= 3 THEN roles.took_indices[3]
              ELSE m_transfert_queue_family_index
       /\ IF roles.result = "Error"
          THEN /\ StepReturns("Error", "first_index")
               /\ UNCHANGED m_logical_device
          ELSE \/ /\ m_logical_device' = "created"
                  /\ StepReturns("Ok", "vkCreateDevice")
               \/ /\ StepReturns("Error", "vkCreateDevice")
                  /\ UNCHANGED m_logical_device
    /\ UNCHANGED <<frame_vars, swapchain_vars, devices, m_physical_device,
                   m_queue_support>>

DeviceInit ==
    /\ pc = "initEngine"
    /\ engine_state = "UNINITIALIZED"
    /\ init_done = <<>>
    /\ FrameLoopInit
    /\ APPLICATION_FPS_LIMIT = FPS_LIMIT_60
    /\ APPLE \in BOOLEAN
    /\ Constructed

DeviceNext ==
    \/ createGraphicsInstance \/ createRenderDevice \/ pickPhysicalDevice
    \/ getQueueFamilies \/ createLogicalDevice

DeviceSpec == DeviceInit /\ [][DeviceNext]_vars

----------------------------------------------------------------------------
(* SwapChain::queryDetails and SwapChain::create *)

PREFERED_SURFACE_FORMAT == "VK_FORMAT_B8G8R8A8_SRGB"
PREFERED_COLOR_SPACE_FORMAT == "VK_COLORSPACE_SRGB_NONLINEAR_KHR"
\* Project::APPLICATION_FPS_LIMIT.has_value() ? FIFO : IMMEDIATE
PREFERED_PRESENTATION_MODE ==
    IF APPLICATION_FPS_LIMIT # NO_FPS_LIMIT THEN "VK_PRESENT_MODE_FIFO_KHR"
    ELSE "VK_PRESENT_MODE_IMMEDIATE_KHR"

\* The surface formats a surface may have: the prefered one, one with another
\* format, one with another colour space
SurfaceFormats ==
    {[format |-> PREFERED_SURFACE_FORMAT,
      colorSpace |-> PREFERED_COLOR_SPACE_FORMAT],
     [format |-> "VK_FORMAT_B8G8R8A8_UNORM",
      colorSpace |-> PREFERED_COLOR_SPACE_FORMAT],
     [format |-> PREFERED_SURFACE_FORMAT,
      colorSpace |-> "VK_COLOR_SPACE_EXTENDED_SRGB_LINEAR_EXT"]}
PresentModes == {"VK_PRESENT_MODE_FIFO_KHR", "VK_PRESENT_MODE_IMMEDIATE_KHR"}

\* What queryDetails() can store in m_details: the image counts the surface
\* reports (both 0 when the query fails and leaves support_details as
\* initialized), its formats and its present modes
SwapChainSupportDetails ==
    [minImageCount : 0..MaxImages,
     maxImageCount : 0..MaxImages,
     formats       : UNION {[1..n -> SurfaceFormats] : n \in 0..MaxFormats},
     present_modes : UNION {[1..n -> PresentModes] : n \in 0..MaxPresentModes}]

\* SwapChain::checkDetails
checkDetails_MinNotChecked(details) ==
    IF /\ details.maxImageCount >= MAX_BUFFERS
       /\ (details.formats # <<>> /\ details.present_modes # <<>>)
       /\ details.minImageCount > 0
    THEN "Ok" ELSE "Error"
checkDetails(details) ==
    IF /\ (details.minImageCount <= MAX_BUFFERS
           /\ details.maxImageCount >= MAX_BUFFERS)
       /\ (details.formats # <<>> /\ details.present_modes # <<>>)
       /\ details.minImageCount > 0
    THEN "Ok" ELSE "Error"

\* The for loop of chooseFormat from the i-th format on, then formats[0]
RECURSIVE chooseFormat_loop(_, _)
chooseFormat_loop(formats, i) ==
    IF i > Len(formats) THEN formats[1]
    ELSE IF /\ formats[i].format = PREFERED_SURFACE_FORMAT
            /\ formats[i].colorSpace = PREFERED_COLOR_SPACE_FORMAT
    THEN formats[i]
    ELSE chooseFormat_loop(formats, i + 1)

\* static chooseFormat
chooseFormat_FirstEntry(formats) == [result |-> "Ok", value |-> formats[1]]
chooseFormat(formats) ==
    [result |-> "Ok", value |-> chooseFormat_loop(formats, 1)]

\* static choosePresentMode: the loop returns the prefered mode where it meets
\* it; after the loop, the error
choosePresentMode_FallbackToFirst(present_modes) ==
    IF \E i \in 1..Len(present_modes) :
           present_modes[i] = PREFERED_PRESENTATION_MODE
    THEN [result |-> "Ok", value |-> PREFERED_PRESENTATION_MODE]
    ELSE [result |-> "Ok", value |-> present_modes[1]]
choosePresentMode(present_modes) ==
    IF \E i \in 1..Len(present_modes) :
           present_modes[i] = PREFERED_PRESENTATION_MODE
    THEN [result |-> "Ok", value |-> PREFERED_PRESENTATION_MODE]
    ELSE [result |-> "Error", value |-> "none"]

\* A bool as the operand of ==: false is 0, true is 1
BoolAsInt(b) == IF b THEN 1 ELSE 0

\* const bool is_exclusive = (indices[0] == indices[1] == indices[2]): == is
\* left-associative, the result of the first comparison is compared with
\* indices[2]
is_exclusive(indices) == BoolAsInt(indices[1] = indices[2]) = indices[3]

\* create_info once create() has filled it
SwapchainCreateInfo(indices) ==
    [imageFormat      |-> m_format'.format,
     imageColorSpace  |-> m_format'.colorSpace,
     presentMode      |-> m_present_mode',
     imageSharingMode |-> IF is_exclusive(indices)
                          THEN "VK_SHARING_MODE_EXCLUSIVE"
                          ELSE "VK_SHARING_MODE_CONCURRENT",
     queueFamilyIndexCount |-> IF is_exclusive(indices) THEN 0
                               ELSE Len(indices),
     pQueueFamilyIndices   |-> IF is_exclusive(indices) THEN <<>> ELSE indices]

\* Engine::createSwapChain: queryDetails(), then create().  create() returns
\* the error of checkDetails or of choosePresentMode; past them it sets
\* m_format and m_present_mode and fills create_info.  With is_exclusive true
\* the two asserts abort the program in a build that keeps them, and a build
\* with NDEBUG goes on with the exclusive mode.  vkCreateSwapchainKHR succeeds,
\* and the swapchain has its images, or it fails.
createSwapChain ==
    /\ InitStep = "createSwapChain"
    /\ \E details \in SwapChainSupportDetails :
         LET present_mode_result == choosePresentMode(details.present_modes)
             format_result == chooseFormat(details.formats)
             indices == <<m_graphics_queue_family_index,
                          m_presents_queue_family_index,
                          m_transfert_queue_family_index>>
         IN
         /\ m_details' = details
         /\ IF checkDetails(details) = "Error"
            THEN /\ StepReturns("Error", "checkDetails")
                 /\ UNCHANGED <<m_format, m_present_mode, create_info,
                                m_swapchain, nb_swapchain_images>>
            ELSE IF present_mode_result.result = "Error"
            THEN /\ StepReturns("Error", "choosePresentMode")
                 /\ UNCHANGED <<m_format, m_present_mode, create_info,
                                m_swapchain, nb_swapchain_images>>
            ELSE /\ m_present_mode' = present_mode_result.value
                 /\ m_format' = format_result.value
                 /\ \/ /\ is_exclusive(indices)
                       /\ returned' = [fn |-> InitStep,
                                       result |-> "aborted", by |-> "assert"]
                       /\ pc' = "aborted"
                       /\ UNCHANGED <<engine_state, init_done, create_info,
                                      m_swapchain, nb_swapchain_images>>
                    \/ /\ create_info' = SwapchainCreateInfo(indices)
                       /\ \/ \E image_count \in MAX_BUFFERS..MaxImages :
                               /\ m_swapchain' = "created"
                               /\ nb_swapchain_images' = image_count
                               /\ StepReturns("Ok", "vkCreateSwapchainKHR")
                          \/ /\ StepReturns("Error", "vkCreateSwapchainKHR")
                             /\ UNCHANGED <<m_swapchain, nb_swapchain_images>>
    /\ UNCHANGED <<frame_vars, device_vars>>

\* The families getQueueFamilies and createLogicalDevice both accept
AcceptedFamilies ==
    {found \in QueueFamilyLists :
        /\ getQueueFamilies_of(found, <<>>).result = "Ok"
        /\ assignRoles(getQueueFamilies_of(found, <<>>).m_queue_support,
                       took_indices_init, 0).result = "Ok"}

\* The families createLogicalDevice gives the three roles
RolesOf(found) ==
    assignRoles(getQueueFamilies_of(found, <<>>).m_queue_support,
                took_indices_init, 0).took_indices

\* Engine::initialize before createSwapChain: the steps before it returned Ok,
\* on a device whose families got the roles some device gets them; of the
\* devices with the same three indices one is taken
SwapChainInit ==
    /\ pc = "initEngine"
    /\ engine_state = "UNINITIALIZED"
    /\ init_done = SubSeq(initialize_steps, 1, 7)
    /\ FrameLoopInit
    /\ APPLE = FALSE
    /\ devices = <<[handle |-> 1,
                    deviceType |-> "VK_PHYSICAL_DEVICE_TYPE_DISCRETE_GPU",
                    deviceName |-> "GeForce"]>>
    /\ m_physical_device = 1
    /\ \E roles \in {RolesOf(found) : found \in AcceptedFamilies} :
         LET found == CHOOSE f \in AcceptedFamilies : RolesOf(f) = roles IN
         /\ m_queue_support = getQueueFamilies_of(found, <<>>).m_queue_support
         /\ queues = roles
         /\ m_graphics_queue_family_index = roles[1]
         /\ m_presents_queue_family_index = roles[2]
         /\ m_transfert_queue_family_index = roles[3]
    /\ m_logical_device = "created"
    /\ m_details = [minImageCount |-> 0, maxImageCount |-> 0, formats |-> <<>>,
                    present_modes |-> <<>>]
    /\ m_format = [format |-> "none", colorSpace |-> "none"]
    /\ m_present_mode = "none"
    /\ create_info = NoCreateInfo
    /\ m_swapchain = "VK_NULL_HANDLE"
    /\ returned = [fn |-> "createDescriptorPool", result |-> "Ok",
                   by |-> "vkCreateDescriptorPool"]
    /\ NothingTornDown
    /\ vk_live = {}

SwapChainNext == createSwapChain

SwapChainSpec == SwapChainInit /\ [][SwapChainNext]_vars

----------------------------------------------------------------------------
(* main *)

\* What neither a construction step after createSwapChain nor a destructor
\* changes
loop_vars == <<app_state, windowShouldClose, m_FPS_limit, m_current_frame,
               recorded_frames_index, m_frame_index, m_graphics_command,
               semaphore, acquire_pending, graphics_queue, presents_queue,
               elapsed, wait_until_ms, frames_started, frames_done, frame_ops,
               in_flight, window_writers, results, gpu_log, APPLE,
               APPLICATION_FPS_LIMIT, devices, m_physical_device,
               m_queue_support, queues, m_graphics_queue_family_index,
               m_presents_queue_family_index, m_transfert_queue_family_index,
               m_details, m_format, m_present_mode, create_info,
               nb_swapchain_images>>
\* The objects of Engine::initialize and of the destructors
object_vars == <<m_logical_device, m_swapchain, m_graphics_pipeline, m_pool,
                 m_image_views, m_framebuffers, nb_framebuffers, m_vertex_buffer,
                 m_index_buffer, m_sync_cpu_gpu, command_buffer, vk_live,
                 vk_destroyed, teardowns>>

\* if (app->initWindow().IsError()) return EXIT_FAILURE;  initWindow() returns
\* an error when glfwVulkanSupported() is false
initWindow ==
    /\ pc = "initWindow"
    /\ \E glfwVulkanSupported \in BOOLEAN :
         IF glfwVulkanSupported
         THEN pc' = "initEngine" /\ UNCHANGED exit_code
         ELSE pc' = "exited" /\ exit_code' = "EXIT_FAILURE"
    /\ UNCHANGED <<ip, engine_state, init_done, returned, loop_vars,
                   object_vars>>

\* return EXIT_SUCCESS; after app->run() has returned
mainReturns ==
    /\ pc = "done"
    /\ pc' = "exited"
    /\ exit_code' = "EXIT_SUCCESS"
    /\ UNCHANGED <<ip, engine_state, init_done, returned, loop_vars,
                   object_vars>>

MainInit ==
    /\ pc = "initWindow"
    /\ engine_state = "UNINITIALIZED"
    /\ init_done = <<>>
    /\ FrameLoopInit
    /\ APPLE = FALSE
    /\ Constructed

MainNext == initWindow \/ mainReturns \/ Next

MainSpec == MainInit /\ [][MainNext]_vars

----------------------------------------------------------------------------
(* Engine::initialize after createSwapChain, and the destructors *)

\* How many times a teardown is run on one component
MaxTeardowns == 2

\* The native object whose handle a member holds: its Vulkan type, and which
\* one of that type
ShaderFiles ==
    <<"shaders/basic_triangle.vert.spv", "shaders/basic_triangle.frag.spv">>
ShaderModule(i) == <<"VkShaderModule", i>>
ImageView(i) == <<"VkImageView", i>>
Framebuffer(i) == <<"VkFramebuffer", i>>
RenderPass == <<"VkRenderPass", 0>>
PipelineLayout == <<"VkPipelineLayout", 0>>
PipelineObject == <<"VkPipeline", 0>>
VertexBuffer == <<"VkBuffer", 1>>
IndexBuffer == <<"VkBuffer", 2>>
ImageReadySemaphore == <<"VkSemaphore", 1>>
PresentDoneSemaphore == <<"VkSemaphore", 2>>
Fence == <<"VkFence", 0>>
CommandPool(c) == <<"VkCommandPool", IF c = "graphics" THEN 1 ELSE 2>>
Swapchain == <<"VkSwapchainKHR", 0>>
Surface == <<"VkSurfaceKHR", 0>>
DescriptorPool == <<"VkDescriptorPool", 0>>
Allocator == <<"VmaAllocator", 0>>
LogicalDevice == <<"VkDevice", 0>>
Instance == <<"VkInstance", 0>>

\* What the steps up to createSwapChain have created
CreatedWithTheSwapchain ==
    {Instance, Surface, LogicalDevice, Allocator, DescriptorPool, Swapchain}

\* What no construction step after createSwapChain changes
built_vars == <<ip, exit_code, loop_vars, m_logical_device, m_swapchain,
                teardowns>>

\* Render::createImageViews: m_image_views is resized to the number of
\* swapchain images, and the first vkCreateImageView that fails returns the
\* error; the entry it was to fill has undefined contents, the entries after it
\* are null
createImageViews ==
    /\ InitStep = "createImageViews"
    /\ \E created \in 0..nb_swapchain_images :
         /\ m_image_views' =
              [i \in 1..nb_swapchain_images |->
                 IF i <= created THEN "created"
                 ELSE IF i = created + 1 THEN "undefined"
                 ELSE "VK_NULL_HANDLE"]
         /\ vk_live' = vk_live \cup {ImageView(i) : i \in 1..created}
         /\ StepReturns(IF created = nb_swapchain_images THEN "Ok" ELSE "Error",
                        "vkCreateImageView")
    /\ UNCHANGED <<built_vars, m_graphics_pipeline, m_pool, m_framebuffers,
                   nb_framebuffers, m_vertex_buffer, m_index_buffer,
                   m_sync_cpu_gpu, command_buffer, vk_destroyed>>

\* Render::createShaderModule: createGraphicsApplication reads the two shader
\* files or fails; the modules are created into a local vector, and the first
\* vkCreateShaderModule that fails returns the error, the modules created
\* before it being neither stored nor destroyed; setShaderModules at the end
createShaderModule ==
    /\ InitStep = "createShaderModule"
    /\ \/ /\ StepReturns("Error", "createGraphicsApplication")
          /\ UNCHANGED <<m_graphics_pipeline, vk_live>>
       \/ \E created \in 0..Len(ShaderFiles) :
            /\ vk_live' = vk_live \cup {ShaderModule(i) : i \in 1..created}
            /\ IF created = Len(ShaderFiles)
               THEN /\ m_graphics_pipeline' =
                         [m_graphics_pipeline EXCEPT
                            !.m_shader_modules = Len(ShaderFiles)]
                    /\ StepReturns("Ok", "vkCreateShaderModule")
               ELSE /\ UNCHANGED m_graphics_pipeline
                    /\ StepReturns("Error", "vkCreateShaderModule")
    /\ UNCHANGED <<built_vars, m_pool, m_image_views, m_framebuffers,
                   nb_framebuffers, m_vertex_buffer, m_index_buffer,
                   m_sync_cpu_gpu, command_buffer, vk_destroyed>>

\* Pipeline::setupRenderPass: vkCreateRenderPass fills m_render_pass, or fails
\* and leaves its contents undefined
setupRenderPass ==
    /\ InitStep = "setupRenderPass"
    /\ \/ /\ m_graphics_pipeline' =
               [m_graphics_pipeline EXCEPT !.m_render_pass = "created"]
          /\ vk_live' = vk_live \cup {RenderPass}
          /\ StepReturns("Ok", "vkCreateRenderPass")
       \/ /\ m_graphics_pipeline' =
               [m_graphics_pipeline EXCEPT !.m_render_pass = "undefined"]
          /\ UNCHANGED vk_live
          /\ StepReturns("Error", "vkCreateRenderPass")
    /\ UNCHANGED <<built_vars, m_pool, m_image_views, m_framebuffers,
                   nb_framebuffers, m_vertex_buffer, m_index_buffer,
                   m_sync_cpu_gpu, command_buffer, vk_destroyed>>

\* Pipeline::createSyncObjects on the three pointers: a null pointer is given
\* a new handle before vkCreateSemaphore / vkCreateFence is called, and the
\* first create that fails returns the error.  failing is the create that fails
\* (0: none); the result holds the three pointers afterwards and the error.
createSyncObjects(sync, failing) ==
    LET Made(i, value) ==
            IF sync[i] # "null" THEN sync[i]
            ELSE IF failing = i THEN "undefined" ELSE value
        Failed(i) == sync[i] = "null" /\ failing = i
    IN  IF Failed(1)
        THEN [sync |-> <<Made(1, "created"), sync[2], sync[3]>>,
              result |-> "Error"]
        ELSE IF Failed(2)
        THEN [sync |-> <<Made(1, "created"), Made(2, "created"), sync[3]>>,
              result |-> "Error"]
        ELSE [sync |-> <<Made(1, "created"), Made(2, "created"),
                         Made(3, FenceCreateState)>>,
              result |-> IF Failed(3) THEN "Error" ELSE "Ok"]

\* Pipeline::preconfigure: vkCreatePipelineLayout, then createSyncObjects
preconfigure ==
    /\ InitStep = "preconfigure"
    /\ \/ /\ m_graphics_pipeline' =
               [m_graphics_pipeline EXCEPT !.m_layout = "undefined"]
          /\ UNCHANGED <<vk_live, m_sync_cpu_gpu>>
          /\ StepReturns("Error", "vkCreatePipelineLayout")
       \/ \E failing \in 0..3 :
            LET before == <<m_graphics_pipeline.m_sync_image_ready,
                            m_graphics_pipeline.m_sync_present_done,
                            m_sync_cpu_gpu>>
                made == createSyncObjects(before, failing)
                objects == <<ImageReadySemaphore, PresentDoneSemaphore, Fence>>
            IN
            /\ m_graphics_pipeline' =
                 [m_graphics_pipeline EXCEPT
                    !.m_layout = "created",
                    !.m_sync_image_ready = made.sync[1],
                    !.m_sync_present_done = made.sync[2]]
            /\ m_sync_cpu_gpu' = made.sync[3]
            /\ vk_live' = vk_live \cup {PipelineLayout}
                 \cup {objects[i] : i \in
                         {j \in 1..3 : /\ before[j] = "null"
                                       /\ made.sync[j] \notin
                                            {"null", "undefined"}}}
            /\ StepReturns(made.result, "createSyncObjects")
    /\ UNCHANGED <<built_vars, m_pool, m_image_views, m_framebuffers,
                   nb_framebuffers, m_vertex_buffer, m_index_buffer,
                   command_buffer, vk_destroyed>>

\* Pipeline::create: an error without shader stages or without a layout, else
\* vkCreateGraphicsPipelines fills m_pipeline, or fails and leaves its contents
\* undefined
create ==
    /\ InitStep = "create"
    /\ IF m_graphics_pipeline.m_shader_modules = 0
       THEN /\ StepReturns("Error", "m_shader_stages")
            /\ UNCHANGED <<m_graphics_pipeline, vk_live>>
       ELSE IF m_graphics_pipeline.m_layout = "VK_NULL_HANDLE"
       THEN /\ StepReturns("Error", "m_layout")
            /\ UNCHANGED <<m_graphics_pipeline, vk_live>>
       ELSE \/ /\ m_graphics_pipeline' =
                    [m_graphics_pipeline EXCEPT !.m_pipeline = "created"]
               /\ vk_live' = vk_live \cup {PipelineObject}
               /\ StepReturns("Ok", "vkCreateGraphicsPipelines")
            \/ /\ m_graphics_pipeline' =
                    [m_graphics_pipeline EXCEPT !.m_pipeline = "undefined"]
               /\ UNCHANGED vk_live
               /\ StepReturns("Error", "vkCreateGraphicsPipelines")
    /\ UNCHANGED <<built_vars, m_pool, m_image_views, m_framebuffers,
                   nb_framebuffers, m_vertex_buffer, m_index_buffer,
                   m_sync_cpu_gpu, command_buffer, vk_destroyed>>

\* The Command object a step of createGraphicsPipeline works on
CommandOf(step) ==
    IF step \in {"graphics.createPool", "graphics.createBuffer"}
    THEN "graphics" ELSE "transfert"

\* Command::createPool: vkCreateCommandPool fills m_pool, or fails and leaves
\* its contents undefined
createPool ==
    /\ InitStep \in {"transfert.createPool", "graphics.createPool"}
    /\ LET c == CommandOf(InitStep) IN
       \/ /\ m_pool' = [m_pool EXCEPT ![c] = "created"]
          /\ vk_live' = vk_live \cup {CommandPool(c)}
          /\ StepReturns("Ok", "vkCreateCommandPool")
       \/ /\ m_pool' = [m_pool EXCEPT ![c] = "undefined"]
          /\ UNCHANGED vk_live
          /\ StepReturns("Error", "vkCreateCommandPool")
    /\ UNCHANGED <<built_vars, m_graphics_pipeline, m_image_views,
                   m_framebuffers, nb_framebuffers, m_vertex_buffer,
                   m_index_buffer, m_sync_cpu_gpu, command_buffer,
                   vk_destroyed>>

\* Command::createBuffer: an error without a pool, else
\* vkAllocateCommandBuffers succeeds or not
createBuffer ==
    /\ InitStep \in {"transfert.createBuffer", "graphics.createBuffer"}
    /\ LET c == CommandOf(InitStep) IN
       IF m_pool[c] = "null"
       THEN /\ StepReturns("Error", "m_pool")
            /\ UNCHANGED command_buffer
       ELSE \/ /\ command_buffer' =
                    IF c = "graphics"
                    THEN [command_buffer EXCEPT !.state = "initial"]
                    ELSE command_buffer
               /\ StepReturns("Ok", "vkAllocateCommandBuffers")
            \/ /\ UNCHANGED command_buffer
               /\ StepReturns("Error", "vkAllocateCommandBuffers")
    /\ UNCHANGED <<built_vars, m_graphics_pipeline, m_pool, m_image_views,
                   m_framebuffers, nb_framebuffers, m_vertex_buffer,
                   m_index_buffer, m_sync_cpu_gpu, vk_live, vk_destroyed>>

\* A sequence of vkDestroy* / vmaDestroy* calls, each with the object of the
\* handle it is given: the call is recorded with whether the object was alive
Destroyed(calls) ==
    /\ vk_destroyed' = vk_destroyed \o
         [i \in 1..Len(calls) |->
            [object |-> calls[i], live |-> calls[i] \in vk_live]]
    /\ vk_live' = vk_live \ Range(calls)

\* Pipeline::createVertexBuffer: a buffer that is there is destroyed; the
\* creation of the new buffer is commented out, m_vertex_buffer stays null and
\* the function returns Ok
createVertexBuffer ==
    /\ InitStep = "createVertexBuffer"
    /\ IF m_vertex_buffer # "VK_NULL_HANDLE"
       THEN Destroyed(<<VertexBuffer>>)
       ELSE UNCHANGED <<vk_live, vk_destroyed>>
    /\ m_vertex_buffer' = "VK_NULL_HANDLE"
    /\ StepReturns("Ok", "createVertexBuffer")
    /\ UNCHANGED <<built_vars, m_graphics_pipeline, m_pool, m_image_views,
                   m_framebuffers, nb_framebuffers, m_index_buffer,
                   m_sync_cpu_gpu, command_buffer>>

\* Pipeline::createIndexBuffer: the same on m_index_buffer
createIndexBuffer ==
    /\ InitStep = "createIndexBuffer"
    /\ IF m_index_buffer # "VK_NULL_HANDLE"
       THEN Destroyed(<<IndexBuffer>>)
       ELSE UNCHANGED <<vk_live, vk_destroyed>>
    /\ m_index_buffer' = "VK_NULL_HANDLE"
    /\ StepReturns("Ok", "createIndexBuffer")
    /\ UNCHANGED <<built_vars, m_graphics_pipeline, m_pool, m_image_views,
                   m_framebuffers, nb_framebuffers, m_vertex_buffer,
                   m_sync_cpu_gpu, command_buffer>>

\* Render::createFramebuffers: m_framebuffers is resized to the number of image
\* views, and the first vkCreateFramebuffer that fails returns the error
createFramebuffers ==
    /\ InitStep = "createFramebuffers"
    /\ \E created \in 0..Len(m_image_views) :
         /\ m_framebuffers' =
              [i \in 1..Len(m_image_views) |->
                 IF i <= created THEN "created"
                 ELSE IF i = created + 1 THEN "undefined"
                 ELSE "VK_NULL_HANDLE"]
         /\ nb_framebuffers' = Len(m_image_views)
         /\ vk_live' = vk_live \cup {Framebuffer(i) : i \in 1..created}
         /\ StepReturns(IF created = Len(m_image_views) THEN "Ok" ELSE "Error",
                        "vkCreateFramebuffer")
    /\ UNCHANGED <<built_vars, m_graphics_pipeline, m_pool, m_image_views,
                   m_vertex_buffer, m_index_buffer, m_sync_cpu_gpu,
                   command_buffer, vk_destroyed>>

\* The members a destructor tests, by name, and the ones whose contents are
\* undefined: a failed vkCreate* left them so, or no constructor set them
Handles ==
    [m_render_pass       |-> m_graphics_pipeline.m_render_pass,
     m_layout            |-> m_graphics_pipeline.m_layout,
     m_pipeline          |-> m_graphics_pipeline.m_pipeline,
     m_sync_image_ready  |-> m_graphics_pipeline.m_sync_image_ready,
     m_sync_present_done |-> m_graphics_pipeline.m_sync_present_done,
     m_sync_cpu_gpu      |-> m_sync_cpu_gpu,
     m_vertex_buffer     |-> m_vertex_buffer,
     m_index_buffer      |-> m_index_buffer,
     graphics            |-> m_pool["graphics"],
     transfert           |-> m_pool["transfert"]]
Undefined ==
    {name \in DOMAIN Handles : Handles[name] = "undefined"}
    \cup (IF "undefined" \in Range(m_image_views)
          THEN {"m_image_views"} ELSE {})
    \cup (IF "undefined" \in Range(m_framebuffers)
          THEN {"m_framebuffers"} ELSE {})

\* A handle compares unequal to null: garbage holds the members of undefined
\* contents that are read as a value other than null
NonNull(handle, name, garbage) ==
    IF handle = "undefined" THEN name \in garbage
    ELSE handle \notin {"VK_NULL_HANDLE", "null"}

Call(made, object) == IF made THEN <<object>> ELSE <<>>

\* for (auto h : handles) vkDestroy*(h): the objects, of the Vulkan type
\* given, of the entries that are not null, in the vector's order
CallsOn(handles, name, type, garbage) ==
    LET passed == SelectSeq([i \in 1..Len(handles) |-> i],
                            LAMBDA i : NonNull(handles[i], name, garbage))
    IN  [k \in 1..Len(passed) |-> <<type, passed[k]>>]

\* SwapChain::~SwapChain
SwapChain_calls == Call(m_swapchain # "VK_NULL_HANDLE", Swapchain)

\* Pipeline::~Pipeline, in the order of its statements.  The shader modules
\* are destroyed whenever the vector is not empty, and the vector is left as
\* it is; every other member is tested against null and set to null.
Pipeline_calls(garbage) ==
    LET h == Handles
        Made(name, object) == Call(NonNull(h[name], name, garbage), object)
    IN  [i \in 1..m_graphics_pipeline.m_shader_modules |-> ShaderModule(i)]
        \o Made("m_render_pass", RenderPass)
        \o Made("m_layout", PipelineLayout)
        \o Made("m_vertex_buffer", VertexBuffer)
        \o Made("m_index_buffer", IndexBuffer)
        \o Made("m_pipeline", PipelineObject)
        \o Made("m_sync_image_ready", ImageReadySemaphore)
        \o Made("m_sync_present_done", PresentDoneSemaphore)
        \o Made("m_sync_cpu_gpu", Fence)
Pipeline_after ==
    [m_graphics_pipeline EXCEPT !.m_render_pass = "VK_NULL_HANDLE",
                                !.m_layout = "VK_NULL_HANDLE",
                                !.m_pipeline = "VK_NULL_HANDLE",
                                !.m_sync_image_ready = "null",
                                !.m_sync_present_done = "null"]

\* Command::~Command: with a pool and a logical device, vkDestroyCommandPool
Command_calls(c, garbage) ==
    Call(/\ NonNull(m_pool[c], c, garbage)
         /\ m_logical_device # "VK_NULL_HANDLE",
         CommandPool(c))

\* Device::Destroy
Device_calls == Call(m_logical_device # "VK_NULL_HANDLE", LogicalDevice)

\* Application::clean, after run() has returned: m_engine = nullptr runs
\* Engine::~Engine
clean ==
    /\ pc = "run"
    /\ pc' = "~Engine"
    /\ ip' = 1
    /\ UNCHANGED <<engine_state, init_done, returned, exit_code, loop_vars,
                   object_vars>>

\* What no statement of Engine::~Engine changes
engine_vars == <<engine_state, init_done, returned, exit_code, loop_vars>>

\* The statement of ~Engine at ip has run
Torn(n) ==
    /\ pc = "~Engine"
    /\ ip = n
    /\ ip' = n + 1
    /\ UNCHANGED <<pc, engine_vars>>

\* m_swapchain = nullptr;  ~SwapChain
SwapChain_destructor ==
    /\ Torn(1)
    /\ Destroyed(SwapChain_calls)
    /\ m_swapchain' = "VK_NULL_HANDLE"
    /\ teardowns' = [teardowns EXCEPT !["SwapChain"] = @ + 1]
    /\ UNCHANGED <<m_logical_device, m_graphics_pipeline, m_pool, m_image_views,
                   m_framebuffers, nb_framebuffers, m_vertex_buffer,
                   m_index_buffer, m_sync_cpu_gpu, command_buffer>>

\* m_render = nullptr;  ~Render: ~Pipeline, the surface, the image views, the
\* framebuffers, ~Command of the graphics and of the transfert Command
Render_destructor ==
    /\ Torn(2)
    /\ \E garbage \in SUBSET Undefined :
         Destroyed(Pipeline_calls(garbage)
                   \o Call(Surface \in vk_live, Surface)
                   \o CallsOn(m_image_views, "m_image_views", "VkImageView",
                              garbage)
                   \o CallsOn(m_framebuffers, "m_framebuffers",
                              "VkFramebuffer", garbage)
                   \o Command_calls("graphics", garbage)
                   \o Command_calls("transfert", garbage))
    /\ m_graphics_pipeline' = Pipeline_after
    /\ m_vertex_buffer' = "VK_NULL_HANDLE"
    /\ m_index_buffer' = "VK_NULL_HANDLE"
    /\ m_sync_cpu_gpu' = "null"
    /\ m_image_views' = <<>>
    /\ m_framebuffers' = <<>>
    /\ nb_framebuffers' = 0
    /\ m_pool' = [graphics |-> "null", transfert |-> "null"]
    /\ command_buffer' = [command_buffer EXCEPT !.state = "null"]
    /\ teardowns' = [teardowns EXCEPT !["Pipeline"] = @ + 1,
                                      !["graphics Command"] = @ + 1,
                                      !["transfert Command"] = @ + 1]
    /\ UNCHANGED <<m_logical_device, m_swapchain>>

\* if (m_descriptor_pool) vkDestroyDescriptorPool(...);
vkDestroyDescriptorPool ==
    /\ Torn(3)
    /\ Destroyed(Call(DescriptorPool \in vk_live, DescriptorPool))
    /\ UNCHANGED <<m_logical_device, m_swapchain, m_graphics_pipeline, m_pool,
                   m_image_views, m_framebuffers, nb_framebuffers,
                   m_vertex_buffer, m_index_buffer, m_sync_cpu_gpu,
                   command_buffer, teardowns>>

\* if (VK_NULL_HANDLE != m_allocator) vmaDestroyAllocator(m_allocator);
vmaDestroyAllocator ==
    /\ Torn(4)
    /\ Destroyed(Call(Allocator \in vk_live, Allocator))
    /\ UNCHANGED <<m_logical_device, m_swapchain, m_graphics_pipeline, m_pool,
                   m_image_views, m_framebuffers, nb_framebuffers,
                   m_vertex_buffer, m_index_buffer, m_sync_cpu_gpu,
                   command_buffer, teardowns>>

\* m_graphics_device.Destroy(); in the body of ~Engine, and again from ~Device
\* when the members of the Engine are destroyed
Destroy_BeforeTheAllocator ==
    /\ pc = "~Engine"
    /\ ip \in {4, 5, 7}
    /\ ip = 4 => m_logical_device # "VK_NULL_HANDLE"
    /\ IF ip = 4 THEN ip' = 4 /\ pc' = pc
       ELSE IF ip = 5 THEN ip' = 6 /\ pc' = pc
                      ELSE ip' = 0 /\ pc' = "destroyed"
    /\ Destroyed(Device_calls)
    /\ m_logical_device' = "VK_NULL_HANDLE"
    /\ teardowns' = [teardowns EXCEPT !["Device"] = @ + 1]
    /\ UNCHANGED <<engine_vars, m_swapchain, m_graphics_pipeline, m_pool,
                   m_image_views, m_framebuffers, nb_framebuffers,
                   m_vertex_buffer, m_index_buffer, m_sync_cpu_gpu,
                   command_buffer>>
Destroy ==
    /\ pc = "~Engine"
    /\ ip \in {5, 7}
    /\ IF ip = 5 THEN ip' = 6 /\ pc' = pc
                 ELSE ip' = 0 /\ pc' = "destroyed"
    /\ Destroyed(Device_calls)
    /\ m_logical_device' = "VK_NULL_HANDLE"
    /\ teardowns' = [teardowns EXCEPT !["Device"] = @ + 1]
    /\ UNCHANGED <<engine_vars, m_swapchain, m_graphics_pipeline, m_pool,
                   m_image_views, m_framebuffers, nb_framebuffers,
                   m_vertex_buffer, m_index_buffer, m_sync_cpu_gpu,
                   command_buffer>>

\* if (m_graphics_instance) vkDestroyInstance(m_graphics_instance, nullptr);
vkDestroyInstance ==
    /\ Torn(6)
    /\ Destroyed(Call(Instance \in vk_live, Instance))
    /\ UNCHANGED <<m_logical_device, m_swapchain, m_graphics_pipeline, m_pool,
                   m_image_views, m_framebuffers, nb_framebuffers,
                   m_vertex_buffer, m_index_buffer, m_sync_cpu_gpu,
                   command_buffer, teardowns>>

\* The statement of ~Engine that follows the teardown of a component
TornDownAt(c) ==
    CASE c = "SwapChain" -> 2
      [] c = "Device" -> 6
      [] OTHER -> 3

\* The teardown of a component run once more, on the members as its first run
\* left them
teardownAgain ==
    /\ pc = "~Engine"
    /\ \E c \in Components :
         /\ ip = TornDownAt(c)
         /\ teardowns[c] \in 1..(MaxTeardowns - 1)
         /\ teardowns' = [teardowns EXCEPT ![c] = @ + 1]
         /\ CASE c = "SwapChain" ->
                   /\ Destroyed(SwapChain_calls)
                   /\ m_swapchain' = "VK_NULL_HANDLE"
                   /\ UNCHANGED <<m_logical_device, m_graphics_pipeline, m_pool,
                                  m_vertex_buffer, m_index_buffer,
                                  m_sync_cpu_gpu, command_buffer>>
              [] c = "Pipeline" ->
                   /\ Destroyed(Pipeline_calls({}))
                   /\ m_graphics_pipeline' = Pipeline_after
                   /\ m_vertex_buffer' = "VK_NULL_HANDLE"
                   /\ m_index_buffer' = "VK_NULL_HANDLE"
                   /\ m_sync_cpu_gpu' = "null"
                   /\ UNCHANGED <<m_logical_device, m_swapchain, m_pool,
                                  command_buffer>>
              [] c = "Device" ->
                   /\ Destroyed(Device_calls)
                   /\ m_logical_device' = "VK_NULL_HANDLE"
                   /\ UNCHANGED <<m_swapchain, m_graphics_pipeline, m_pool,
                                  m_vertex_buffer, m_index_buffer,
                                  m_sync_cpu_gpu, command_buffer>>
              [] OTHER ->
                   LET command == IF c = "graphics Command" THEN "graphics"
                                  ELSE "transfert" IN
                   /\ Destroyed(Command_calls(command, {}))
                   /\ m_pool' = [m_pool EXCEPT ![command] = "null"]
                   /\ command_buffer' =
                        IF command = "graphics"
                        THEN [command_buffer EXCEPT !.state = "null"]
                        ELSE command_buffer
                   /\ UNCHANGED <<m_logical_device, m_swapchain,
                                  m_graphics_pipeline, m_vertex_buffer,
                                  m_index_buffer, m_sync_cpu_gpu>>
    /\ UNCHANGED <<pc, ip, engine_vars, m_image_views, m_framebuffers,
                   nb_framebuffers>>

\* Engine::initialize once createSwapChain has returned Ok: the device has a
\* family for each role, the swapchain has its images
LifecycleInit ==
    /\ pc = "initEngine"
    /\ engine_state = "UNINITIALIZED"
    /\ init_done = SubSeq(initialize_steps, 1, 8)
    /\ ApplicationConstructed
    /\ APPLICATION_FPS_LIMIT = FPS_LIMIT_60
    /\ nb_swapchain_images \in MAX_BUFFERS..MaxImages
    /\ APPLE = FALSE
    /\ devices = <<[handle |-> 1,
                    deviceType |-> "VK_PHYSICAL_DEVICE_TYPE_DISCRETE_GPU",
                    deviceName |-> "GeForce"]>>
    /\ m_physical_device = 1
    /\ m_queue_support = <<GRAPHICS, PRESENTS, TRANSFERT>>
    /\ queues = <<0, 1, 2>>
    /\ m_graphics_queue_family_index = 0
    /\ m_presents_queue_family_index = 1
    /\ m_transfert_queue_family_index = 2
    /\ m_logical_device = "created"
    /\ m_details = [minImageCount |-> 1, maxImageCount |-> MaxImages,
                    formats |-> <<[format |-> PREFERED_SURFACE_FORMAT,
                                   colorSpace |->
                                     PREFERED_COLOR_SPACE_FORMAT]>>,
                    present_modes |-> <<"VK_PRESENT_MODE_FIFO_KHR">>]
    /\ m_format = [format |-> PREFERED_SURFACE_FORMAT,
                   colorSpace |-> PREFERED_COLOR_SPACE_FORMAT]
    /\ m_present_mode = "VK_PRESENT_MODE_FIFO_KHR"
    /\ create_info = [imageFormat |-> PREFERED_SURFACE_FORMAT,
                      imageColorSpace |-> PREFERED_COLOR_SPACE_FORMAT,
                      presentMode |-> "VK_PRESENT_MODE_FIFO_KHR",
                      imageSharingMode |-> "VK_SHARING_MODE_CONCURRENT",
                      queueFamilyIndexCount |-> 3,
                      pQueueFamilyIndices |-> <<0, 1, 2>>]
    /\ m_swapchain = "created"
    /\ returned = [fn |-> "createSwapChain", result |-> "Ok",
                   by |-> "vkCreateSwapchainKHR"]
    /\ NothingTornDown
    /\ vk_live = CreatedWithTheSwapchain

LifecycleNext ==
    \/ createImageViews
    \/ createShaderModule
    \/ setupRenderPass
    \/ preconfigure
    \/ create
    \/ createPool
    \/ createBuffer
    \/ createVertexBuffer
    \/ createIndexBuffer
    \/ createFramebuffers
    \/ clean
    \/ SwapChain_destructor
    \/ Render_destructor
    \/ vkDestroyDescriptorPool
    \/ vmaDestroyAllocator
    \/ Destroy
    \/ vkDestroyInstance
    \/ teardownAgain

LifecycleSpec == LifecycleInit /\ [][LifecycleNext]_vars

----------------------------------------------------------------------------
(* Properties of the frame loop *)

InLoop == pc \in {"loop", "drawFrame"}

\* C1: in every acquireImage() the fence is waited on, then reset, before the
\* image is acquired: each acquisition a drawFrame() makes is directly preceded
\* by a returned vkWaitForFences followed by vkResetFences.
C1_FenceWaitedAndResetBeforeAcquire ==
    \A i \in 1..Len(frame_ops) :
        frame_ops[i] = "vkAcquireNextImageKHR" =>
            /\ i >= 3
            /\ frame_ops[i - 2] = "vkWaitForFences"
            /\ frame_ops[i - 1] = "vkResetFences"

C1_Witness ==
    /\ frames_done >= 1
    /\ Len(frame_ops) > 0
    /\ frame_ops[Len(frame_ops)] = "vkAcquireNextImageKHR"
    /\ results.acquire = "VK_SUCCESS"

\* C2: between a successful submission in draw() and the return of the fence
\* wait of the following acquireImage(), no step changes the graphics command
\* buffer, the vertex buffer or the index buffer.
C2_NoMutationWhileInFlight ==
    [][in_flight => UNCHANGED <<command_buffer, m_vertex_buffer,
                                m_index_buffer>>]_vars

C2_Witness ==
    /\ in_flight
    /\ Step = "vkWaitForFences"
    /\ frames_done >= 1
    /\ command_buffer.state = "executable"

\* C3 as stated: nothing writes m_frame_index between a submission and the
\* return of the fence wait for it, updateFrameIndex() included.
C3_NoIndexWriteWhileInFlight == window_writers = <<>>

\* C3, amended: between a submission and the return of the fence wait for it,
\* m_frame_index is written at most once, by updateFrameIndex(); the acquire
\* never writes it in that window.
C3_OnlyUpdateWritesWhileInFlight ==
    window_writers \in {<<>>, <<"updateFrameIndex">>}

C3_Witness ==
    /\ in_flight
    /\ window_writers = <<"updateFrameIndex">>
    /\ Step = "vkWaitForFences"
    /\ graphics_queue # <<>>

\* C4: at most one submitted command buffer is pending on the GPU; draw() never
\* submits while the work of the previous draw() has not completed.
C4_SingleFrameInFlight == Len(graphics_queue) <= 1

C4_Witness ==
    /\ Len(graphics_queue) = 1
    /\ gpu_log.completed # {}
    /\ Head(graphics_queue).frame >= 2

\* C5: on the GPU a frame's command buffer writes the colour attachment only
\* after the image acquired for that frame is available, and a frame's present
\* request is executed only after that frame's submission has completed.
C5_AcquireRenderPresentOrder ==
    /\ gpu_log.colour_written \subseteq gpu_log.available
    /\ gpu_log.presented \subseteq gpu_log.completed

C5_Witness ==
    /\ Cardinality(gpu_log.presented) >= 2
    /\ gpu_log.presented \subseteq gpu_log.colour_written

\* C6: after a frame whose draw() did not submit, the fence wait of the next
\* acquireImage() still returns: when the CPU is at that wait the fence is
\* signaled or a pending submission is going to signal it.
C6_WaitReturnsAfterFailedSubmit ==
    (Step = "vkWaitForFences" /\ results.submit \in {"error", "not called"})
        => (FenceWaitReturns(m_sync_cpu_gpu) \/ graphics_queue # <<>>)

\* C7: the fence is created signaled, so the fence wait of the first
\* acquireImage() returns although nothing has been submitted.
C7_FirstWaitDoesNotBlock ==
    (Step = "vkWaitForFences" /\ frames_started = 1)
        => /\ m_sync_cpu_gpu = "signaled"
           /\ graphics_queue = <<>>
           /\ results.submit = "none"

C7_Witness ==
    /\ frames_started = 1
    /\ Step = "vkResetFences"
    /\ frame_ops # <<>>
    /\ frame_ops[Len(frame_ops)] = "vkWaitForFences"
    /\ results.submit = "none"
    /\ "preconfigure" \in Range(init_done)

\* The statements of a frame that the order of C8 is about
IsFrameOrderOp(op) ==
    op \notin {"get_time_limit", "recordDuration", "block_until"}
FrameOrder ==
    <<"vkWaitForFences", "vkResetFences", "vkAcquireNextImageKHR",
      "vkResetCommandBuffer", "record", "vkQueueSubmit", "vkQueuePresentKHR",
      "updateFrameIndex", "incrementFrame">>
IsPrefix(s, t) == Len(s) <= Len(t) /\ s = SubSeq(t, 1, Len(s))

\* C8: every drawFrame() runs, once each and in this order, the acquire, the
\* recording, the submission, the present, updateFrameIndex(frameCounter) and
\* the increment of the frame counter, which starts at 1; with or without an
\* FPS cap the frame index is not advanced before present() has been issued.
C8_FrameOrder ==
    LET ops == SelectSeq(frame_ops, IsFrameOrderOp) IN
    /\ IsPrefix(ops, FrameOrder)
    /\ (pc = "loop" /\ frames_done > 0) => ops = FrameOrder
    /\ InLoop => m_current_frame = (1 + frames_done) % UINT64_RANGE

C8_Witness ==
    /\ pc = "loop"
    /\ frames_done >= 2
    /\ m_FPS_limit # NO_FPS_LIMIT
    /\ SelectSeq(frame_ops, IsFrameOrderOp) = FrameOrder

\* C9: after N completed drawFrame() calls with B framebuffers the frame index
\* is N mod B.
C9_FrameIndexIsNModB ==
    (pc = "loop" /\ frames_done > 0)
        => m_frame_index = frames_done % nb_framebuffers

\* C10: at every observation point of the frame loop the frame index is
\* smaller than the number of framebuffers.
C10_FrameIndexInRange == InLoop => m_frame_index < nb_framebuffers

C10_Witness ==
    /\ Step = "vkQueuePresentKHR"
    /\ frames_done >= 1
    /\ results.acquire = "VK_SUCCESS"
    /\ m_frame_index = nb_framebuffers - 1

\* The calls of a frame that C11 is about
FrameCalls == {"vkAcquireNextImageKHR", "vkQueueSubmit", "vkQueuePresentKHR"}
LoopLeft == pc \in {"waitIdle", "closing", "done"}

\* C11: the frame loop is left only at a frame boundary.  A drawFrame() is left
\* only by returning to the loop condition, with its acquire, its submit and
\* its present issued, whether or not the close flag was raised for that frame;
\* the loop is left only by its condition, on the close flag or on a state other
\* than RUNNING; and once it is left no frame starts.
C11_ExitOnlyAtFrameBoundary ==
    /\ [](LoopLeft => /\ ip = 0
                       /\ frames_done = frames_started
                       /\ frames_started > 0 => FrameCalls \subseteq Range(frame_ops))
    /\ [][(pc = "drawFrame" /\ pc' # "drawFrame")
             => /\ pc' = "loop"
                /\ FrameCalls \subseteq Range(frame_ops')]_vars
    /\ [][(~LoopLeft /\ LoopLeft')
             => /\ pc \in {"loop", "run"}
                /\ pc = "loop" => (windowShouldClose \/ app_state # "RUNNING")]_vars
    /\ [][LoopLeft => (LoopLeft' /\ frames_started' = frames_started)]_vars

C11_Witness ==
    /\ pc = "waitIdle"
    /\ windowShouldClose
    /\ frames_done >= 2
    /\ FrameCalls \subseteq Range(frame_ops)

----------------------------------------------------------------------------
(* Properties of the device selection (DeviceSpec) *)

\* The positions of the suitable devices in the list enumerated
SuitableDevices == {i \in 1..Len(devices) : isDeviceSuitable(devices[i])}

\* C12: listDevices() selects the first device of the list enumerated that is
\* suitable, never a later one; with an empty list, or a list without a
\* suitable device, it returns an error and the selected device stays null.
C12_FirstSuitableDeviceSelected ==
    returned.fn = "pickPhysicalDevice" =>
        IF SuitableDevices = {}
        THEN /\ returned.result = "Error"
             /\ m_physical_device = VK_NULL_HANDLE
        ELSE /\ returned.result = "Ok"
             /\ \E i \in SuitableDevices :
                    /\ m_physical_device = devices[i].handle
                    /\ \A j \in SuitableDevices : i <= j

C12_Witness ==
    /\ returned.fn = "pickPhysicalDevice"
    /\ returned.result = "Ok"
    /\ Cardinality(SuitableDevices) >= 2
    /\ m_physical_device = devices[1].handle

\* The roles some family of m_queue_support supports
CoveredRoles ==
    {flag \in Range(supported_flags) :
        \E i \in 1..Len(m_queue_support) : HasFeature(m_queue_support[i], flag)}

\* C13: getQueueFamilies() returns an error exactly when the families of the
\* device, taken together, lack GRAPHICS, PRESENTS or TRANSFERT; the device
\* without any family is such a device.
C13_ErrorIffUnionLacksARole ==
    returned.fn = "getQueueFamilies" =>
        (returned.result = "Error" <=> CoveredRoles # Range(supported_flags))

\* C14: once createLogicalDevice() has given every role a family, the families
\* of GRAPHICS, PRESENTS and TRANSFERT are pairwise distinct, and so are the
\* families the three VkDeviceQueueCreateInfo entries name.
C14_RolesGetDistinctFamilies ==
    (returned.fn = "createLogicalDevice" /\ Len(queues) = Len(supported_flags))
        => /\ m_graphics_queue_family_index # m_presents_queue_family_index
           /\ m_graphics_queue_family_index # m_transfert_queue_family_index
           /\ m_presents_queue_family_index # m_transfert_queue_family_index
           /\ Cardinality(Range(queues)) = Len(supported_flags)

\* The k-th role cannot be covered: no family that the roles before it have
\* not taken supports it
Uncoverable(k) ==
    ~ \E i \in 0..(Len(m_queue_support) - 1) :
        /\ \A j \in 1..(k - 1) : queues[j] # i
        /\ HasFeature(m_queue_support[i + 1], supported_flags[k])

\* C15: createLogicalDevice() returns an error, and creates no logical device,
\* whenever it comes to a role that cannot be covered.
C15_ErrorWhenARoleIsUncoverable ==
    returned.fn = "createLogicalDevice" =>
        ((\E k \in 1..Len(supported_flags) :
              k <= Len(queues) + 1 /\ Uncoverable(k))
            => /\ returned.result = "Error"
               /\ m_logical_device = "VK_NULL_HANDLE")

----------------------------------------------------------------------------
(* Properties of the swapchain creation (SwapChainSpec) *)

\* create() has gone past checkDetails and choosePresentMode
DetailsAccepted ==
    /\ returned.fn = "createSwapChain"
    /\ returned.by \notin {"checkDetails", "choosePresentMode"}

PreferedFormat == [format |-> "VK_FORMAT_B8G8R8A8_SRGB",
                   colorSpace |-> "VK_COLORSPACE_SRGB_NONLINEAR_KHR"]

\* C17: on a list of formats that is not empty chooseFormat never fails; it
\* returns the entry with the prefered format and colour space when the list
\* has one, at whatever position, and the first entry of the list otherwise.
C17_PreferedFormatElseFirst ==
    /\ returned.by # "chooseFormat"
    /\ DetailsAccepted =>
           m_format = IF PreferedFormat \in Range(m_details.formats)
                      THEN PreferedFormat
                      ELSE m_details.formats[1]

C17_Witness ==
    /\ DetailsAccepted
    /\ Len(m_details.formats) = 2
    /\ m_details.formats[1] # PreferedFormat
    /\ m_details.formats[2] = PreferedFormat
    /\ m_format = PreferedFormat

\* The present mode C18 names as the prefered one
PreferedModeOfTheBuild ==
    IF APPLICATION_FPS_LIMIT = NO_FPS_LIMIT
    THEN "VK_PRESENT_MODE_IMMEDIATE_KHR" ELSE "VK_PRESENT_MODE_FIFO_KHR"

\* C18: choosePresentMode returns the prefered mode (FIFO in a build with an
\* FPS limit, immediate otherwise) exactly when the list has it; when the list
\* lacks it there is no fallback: create() returns the error and no swapchain
\* is created.
C18_PreferedPresentModeOrError ==
    (returned.fn = "createSwapChain" /\ returned.by # "checkDetails") =>
        IF PreferedModeOfTheBuild \in Range(m_details.present_modes)
        THEN /\ returned.by # "choosePresentMode"
             /\ m_present_mode = PreferedModeOfTheBuild
        ELSE /\ returned.by = "choosePresentMode"
             /\ returned.result = "Error"
             /\ engine_state = "ERROR"
             /\ create_info = NoCreateInfo
             /\ m_swapchain = "VK_NULL_HANDLE"

C18_Witness ==
    /\ returned.fn = "createSwapChain"
    /\ returned.by = "choosePresentMode"
    /\ APPLICATION_FPS_LIMIT = FPS_LIMIT_60
    /\ m_details.present_modes = <<"VK_PRESENT_MODE_IMMEDIATE_KHR">>
    /\ m_swapchain = "VK_NULL_HANDLE"

\* C19: whenever the families of the three roles are not all the same,
\* create() asks for concurrent sharing between the three of them; it does not
\* take the exclusive mode and its asserts do not fire.
C19_ConcurrentUnlessAllEqual ==
    (/\ DetailsAccepted
     /\ ~ (/\ m_graphics_queue_family_index = m_presents_queue_family_index
           /\ m_presents_queue_family_index = m_transfert_queue_family_index))
        => /\ returned.by # "assert"
           /\ create_info.imageSharingMode = "VK_SHARING_MODE_CONCURRENT"
           /\ create_info.queueFamilyIndexCount = 3
           /\ create_info.pQueueFamilyIndices =
                  <<m_graphics_queue_family_index,
                    m_presents_queue_family_index,
                    m_transfert_queue_family_index>>

----------------------------------------------------------------------------
(* Properties of Engine::initialize (Spec) *)

\* The construction steps in the order of C20
ConstructionOrder ==
    <<"createGraphicsInstance", "createRenderDevice", "pickPhysicalDevice",
      "getQueueFamilies", "createLogicalDevice", "createAllocator",
      "createDescriptorPool", "createSwapChain", "createImageViews",
      "createGraphicsPipeline", "createFramebuffers">>

\* A step of Engine::initialize, or the last step of createGraphicsPipeline,
\* after which createGraphicsPipeline returns Ok
StepsOfCreateGraphicsPipeline == Range(createGraphicsPipeline)
EndsAStep(step) ==
    \/ step \notin StepsOfCreateGraphicsPipeline
    \/ step = createGraphicsPipeline[Len(createGraphicsPipeline)]

\* The steps of Engine::initialize that returned Ok
StepsReturnedOk ==
    LET ends == SelectSeq(init_done, EndsAStep) IN
    [i \in 1..Len(ends) |->
        IF ends[i] \in StepsOfCreateGraphicsPipeline
        THEN "createGraphicsPipeline" ELSE ends[i]]

----------------------------------------------------------------------------
(* Properties of the pipeline states and of the FPS cap (Spec) *)

\* The creation steps that take the pipeline to RENDER_PASS_READY, LAYOUT_READY
\* (layout and sync primitives) and PIPELINE_READY
PipelineStates == <<"setupRenderPass", "preconfigure", "create">>
IsPipelineState(step) == step \in {"setupRenderPass", "preconfigure", "create"}
\* The calls that take it to ACQUIRED, SUBMITTED and PRESENTED
FrameStates == <<"vkAcquireNextImageKHR", "vkQueueSubmit", "vkQueuePresentKHR">>
IsFrameState(op) ==
    op \in {"vkAcquireNextImageKHR", "vkQueueSubmit", "vkQueuePresentKHR"}

\* C25: the render pass is created, then the layout and the sync primitives,
\* then the pipeline object, all of them before the first acquireImage(); in
\* every frame the acquire, the submit and the present are issued in this
\* order, each once, so that over the frames they cycle; none of them is issued
\* before the pipeline object exists.
C25_PipelineStatesInOrder ==
    /\ IsPrefix(SelectSeq(init_done, IsPipelineState), PipelineStates)
    /\ frames_started > 0 => Range(PipelineStates) \subseteq Range(init_done)
    /\ IsPrefix(SelectSeq(frame_ops, IsFrameState), FrameStates)
    /\ (pc = "loop" /\ frames_done > 0)
           => SelectSeq(frame_ops, IsFrameState) = FrameStates
    /\ (pc = "drawFrame" /\ ip = 1) => frame_ops = <<>>

C25_Witness ==
    /\ pc = "drawFrame"
    /\ frames_done >= 2
    /\ SelectSeq(init_done, IsPipelineState) = PipelineStates
    /\ SelectSeq(frame_ops, IsFrameState) = FrameStates

\* C27: with an FPS cap c, once block_until has returned in a frame, 1000/c ms
\* have elapsed since get_time_limit computed the deadline of the frame.
C27_BlockUntilKeepsTheFrameTime ==
    (m_FPS_limit # NO_FPS_LIMIT /\ "block_until" \in Range(frame_ops))
        => elapsed * m_FPS_limit >= 1000

----------------------------------------------------------------------------
(* Properties of the role assignment (DeviceSpec) *)

\* Family i (from 0) is free for the k-th role and supports it
FreeAndSupports(i, k) ==
    /\ \A j \in 1..(k - 1) : queues[j] # i
    /\ HasFeature(m_queue_support[i + 1], supported_flags[k])

\* C28: the family createLogicalDevice() gives a role, in the order GRAPHICS,
\* PRESENTS, TRANSFERT, is the family of lowest index that no earlier role has
\* taken and that supports the role; in particular it supports the role.
C28_LowestFreeSupportingFamily ==
    returned.fn = "createLogicalDevice" =>
        \A k \in 1..Len(queues) :
            /\ queues[k] \in 0..(Len(m_queue_support) - 1)
            /\ FreeAndSupports(queues[k], k)
            /\ \A i \in 0..(queues[k] - 1) : ~FreeAndSupports(i, k)

----------------------------------------------------------------------------
(* Properties of repeated Engine::initialize() calls (EngineSpec) *)

\* C21: a call of Engine::initialize() in the state INITIALIZED or ERROR runs
\* no construction step and leaves the state as it is; ERROR is left by no
\* call.
C21_InitializeOnlyWhenUninitialized ==
    [][(pc = "initEngine" /\ engine_state \in {"INITIALIZED", "ERROR"})
          => /\ engine_state' = engine_state
             /\ init_done' = init_done]_vars

----------------------------------------------------------------------------
(* Properties of main (MainSpec) *)

\* C22: main() returns EXIT_SUCCESS exactly when the window and the engine
\* have been initialized, and EXIT_FAILURE when initWindow() failed or
\* initEngine() left the engine in the state ERROR.
C22_ExitCodeTellsInitialization ==
    pc = "exited" =>
        /\ exit_code \in {"EXIT_SUCCESS", "EXIT_FAILURE"}
        /\ exit_code = "EXIT_SUCCESS" <=> engine_state = "INITIALIZED"

----------------------------------------------------------------------------
(* Properties of the construction after createSwapChain and of the        *)
(* destructors (LifecycleSpec)                                             *)

\* Every call on the first object comes before every call on the second one
DestroyedBefore(first, second) ==
    \A i, j \in 1..Len(vk_destroyed) :
       (vk_destroyed[i].object = first /\ vk_destroyed[j].object = second)
          => i < j

\* C23: whatever the number of times the teardown of a component is run, a
\* native object that a vkDestroy* / vmaDestroy* call has destroyed is given to
\* no later call: the second run of a teardown destroys nothing.
C23_EachObjectDestroyedAtMostOnce ==
    \A i, j \in 1..Len(vk_destroyed) :
       (i < j /\ vk_destroyed[i].live)
          => vk_destroyed[j].object # vk_destroyed[i].object

\* The image views and the framebuffers that have been created
ViewsAndFramebuffers ==
    {object \in vk_live \cup {vk_destroyed[i].object : i \in DOMAIN vk_destroyed} :
        object[1] \in {"VkImageView", "VkFramebuffer"}}

\* C24: an image view or a framebuffer exists only once createSwapChain has
\* returned Ok, and at shutdown every image view and every framebuffer is
\* destroyed before the swapchain is.
C24_ViewsAndFramebuffersWithinTheSwapchain ==
    /\ ViewsAndFramebuffers # {} => "createSwapChain" \in Range(init_done)
    /\ \A object \in ViewsAndFramebuffers : DestroyedBefore(object, Swapchain)

\* C26: once createVertexBuffer() has returned Ok the pipeline holds a vertex
\* buffer that is not null and is alive, and once createIndexBuffer() has
\* returned Ok it holds such an index buffer.
C26_BufferOwnedAfterOk ==
    pc \in {"initEngine", "run"} =>
       /\ "createVertexBuffer" \in Range(init_done)
             => m_vertex_buffer # "VK_NULL_HANDLE" /\ VertexBuffer \in vk_live
       /\ "createIndexBuffer" \in Range(init_done)
             => m_index_buffer # "VK_NULL_HANDLE" /\ IndexBuffer \in vk_live

\* C29: the teardown of the Pipeline destroys the pipeline object before the
\* pipeline layout, the layout before the render pass, and the render pass
\* before the vertex and the index buffer.
C29_ReverseOfCreationOrder ==
    /\ DestroyedBefore(PipelineObject, PipelineLayout)
    /\ DestroyedBefore(PipelineLayout, RenderPass)
    /\ DestroyedBefore(RenderPass, VertexBuffer)
    /\ DestroyedBefore(RenderPass, IndexBuffer)

\* The objects of the Pipeline, in the order its teardown is to destroy them
PipelineTeardownOrder ==
    [i \in 1..Len(ShaderFiles) |-> ShaderModule(i)]
    \o <<RenderPass, PipelineLayout, VertexBuffer, IndexBuffer, PipelineObject,
         ImageReadySemaphore, PresentDoneSemaphore, Fence>>
PositionIn(order, object) == CHOOSE k \in 1..Len(order) : order[k] = object
\* The calls of the Pipeline's teardown, in the order they were made
PipelineTeardownCalls ==
    SelectSeq(vk_destroyed,
              LAMBDA call : call.object \in Range(PipelineTeardownOrder))

\* C30: after whatever part of the construction, the teardown of the Pipeline
\* destroys every object of the Pipeline that was created and gives no
\* vkDestroy* call a handle of an object that was never created, and its calls
\* come in the order shader modules, render pass, pipeline layout, vertex
\* buffer, index buffer, pipeline object, image-acquired semaphore,
\* render-finished semaphore, fence.
C30_TeardownOfWhatWasCreated ==
    teardowns["Pipeline"] = 1 =>
       /\ vk_live \cap Range(PipelineTeardownOrder) = {}
       /\ \A i \in 1..Len(PipelineTeardownCalls) :
             PipelineTeardownCalls[i].live
       /\ \A i, j \in 1..Len(PipelineTeardownCalls) :
             i < j => PositionIn(PipelineTeardownOrder,
                                 PipelineTeardownCalls[i].object)
                      < PositionIn(PipelineTeardownOrder,
                                   PipelineTeardownCalls[j].object)


----------------------------------------------------------------------------
(* Command::record on its own: called with any frame index and any number of
   framebuffers *)

\* The CPU thread is about to call record() in some frame of the loop; the
\* frame index and the size of the framebuffer list are arbitrary
RecordInit ==
    /\ pc = "drawFrame"
    /\ engine_state = "INITIALIZED"
    /\ init_done = initialize_steps
    /\ APPLE = FALSE
    /\ Constructed
    /\ app_state = "RUNNING"
    /\ windowShouldClose = FALSE
    /\ APPLICATION_FPS_LIMIT \in {NO_FPS_LIMIT, FPS_LIMIT_60}
    /\ m_FPS_limit = APPLICATION_FPS_LIMIT
    /\ ip = CHOOSE i \in 1..Len(drawFrame(m_FPS_limit)) :
                drawFrame(m_FPS_limit)[i] = "record"
    /\ frame_ops = SubSeq(drawFrame(m_FPS_limit), 1, ip - 1)
    /\ m_current_frame \in 1..MaxFrames
    /\ frames_started = m_current_frame
    /\ frames_done = m_current_frame - 1
    /\ recorded_frames_index = frames_done % FPS_RECORDS
    /\ m_frame_index \in 0..(UINT32_RANGE - 1)
    /\ nb_swapchain_images = MAX_BUFFERS
    /\ nb_framebuffers \in 0..MaxImages
    /\ m_graphics_command = TRUE
    /\ command_buffer = [state |-> "initial", framebuffer |-> 0, frame |-> 0]
    /\ m_vertex_buffer = "VK_NULL_HANDLE"
    /\ m_index_buffer = "VK_NULL_HANDLE"
    /\ m_sync_cpu_gpu = "unsignaled"
    /\ semaphore = [m_sync_image_ready |-> FALSE, m_sync_present_done |-> FALSE]
    /\ acquire_pending = <<>>
    /\ graphics_queue = <<>>
    /\ presents_queue = <<>>
    /\ elapsed = 0
    /\ wait_until_ms = 0
    /\ in_flight = FALSE
    /\ window_writers = <<>>
    /\ results = NoResults
    /\ gpu_log = [available |-> {}, colour_written |-> {}, completed |-> {},
                  presented |-> {}]

RecordNext == record

RecordSpec == RecordInit /\ [][RecordNext]_vars

----------------------------------------------------------------------------
(* Properties of record, draw and present *)

\* record() has returned in the frame under way
RecordReturned == frame_ops # <<>> /\ frame_ops[Len(frame_ops)] = "record"

\* vkCmdBeginRenderPass has been recorded: the command buffer holds a render
\* pass, bound to the framebuffer command_buffer.framebuffer
RenderPassBegun == command_buffer.state \in {"executable", "invalid"}

\* C31: record() never indexes the framebuffer list out of range: when it has
\* returned, either the render pass was begun, on the framebuffer at the frame
\* index and that index is below the number of framebuffers, or the index is
\* not below that number, record() returned an error and no render pass was
\* begun.
C31_RecordIndexesInRange ==
    RecordReturned =>
        /\ RenderPassBegun =>
              /\ command_buffer.framebuffer = m_frame_index
              /\ command_buffer.framebuffer < nb_framebuffers
        /\ m_frame_index >= nb_framebuffers =>
              /\ results.record = "error"
              /\ ~RenderPassBegun

C31_Witness_OutOfRangeRefused ==
    /\ RecordReturned
    /\ m_frame_index >= nb_framebuffers
    /\ nb_framebuffers > 0
    /\ command_buffer.state = "recording"
    /\ results.record = "error"


\* What the branch of drawFrame() with a frame-rate cap has more than the
\* other: the deadline is computed, and waited for
BlockingWait == {"get_time_limit", "block_until"}
NotTheBlockingWait(op) == op \notin BlockingWait

\* C32: with and without a frame-rate cap drawFrame() issues the same sequence
\* of acquire, draw, present, duration recording, updateFrameIndex and counter
\* increment, and ends in the same frame index and frame counter: the capped
\* branch is the other one plus the blocking wait, and at the end of every
\* frame the statements executed, the blocking wait left out, the frame
\* counter, the frame index and the duration slot are the same in both.
C32_SameFrameWithAndWithoutCap ==
    /\ SelectSeq(drawFrame(FPS_LIMIT_60), NotTheBlockingWait)
           = drawFrame(NO_FPS_LIMIT)
    /\ (pc = "loop" /\ frames_done > 0) =>
          /\ SelectSeq(frame_ops, NotTheBlockingWait) = drawFrame(NO_FPS_LIMIT)
          /\ m_current_frame = (frames_done + 1) % UINT64_RANGE
          /\ m_frame_index = updateFrameIndex(frames_done, nb_framebuffers)
          /\ recorded_frames_index = frames_done % FPS_RECORDS

C32_Witness_CappedFrameEnded ==
    /\ pc = "loop"
    /\ frames_done >= 2
    /\ m_FPS_limit = FPS_LIMIT_60
    /\ \E i \in 1..Len(frame_ops) : frame_ops[i] = "block_until"
    /\ results.acquire = "VK_SUCCESS"


\* The statements that read the slot getFrameIndex() refers to: record() for
\* the framebuffer, present() for pImageIndices
ReadsTheFrameIndex == {"record", "vkQueuePresentKHR"}

\* C33: in every frame the framebuffer index record() uses and the image index
\* present() passes are the index this frame's acquireImage() wrote: when
\* record() or present() is about to read the slot, vkAcquireNextImageKHR has
\* written it in this frame, over the value updateFrameIndex() left there.
C33_IndexReadIsTheAcquiredOne ==
    Step \in ReadsTheFrameIndex => results.acquire = "VK_SUCCESS"


\* C34: draw() submits the command buffer only when record() succeeded: draw()
\* reaches vkQueueSubmit only with record() having returned Ok, and no batch
\* of the frame under way is in the graphics queue after record() returned an
\* error.
C34_SubmitsOnlyWhatWasRecorded ==
    /\ Step = "vkQueueSubmit" => results.record = "Ok"
    /\ \A i \in 1..Len(graphics_queue) :
          (graphics_queue[i].frame = frames_started /\ pc = "drawFrame")
              => results.record = "Ok"


\* The frames whose submission has signaled m_sync_present_done and whose
\* present request has not consumed that signal yet
PresentDoneNotConsumed == gpu_log.completed \ gpu_log.presented

\* C35: the render-finished semaphore is never signaled by the submission of
\* frame N+1 while the present of frame N has not consumed the signal of
\* frame N: no step completes the batch of frame N+1 while frame N is
\* completed and not presented.
C35_PresentDoneNotSignaledTwice ==
    [][\A n \in PresentDoneNotConsumed :
           (n + 1) \in gpu_log.completed \/ (n + 1) \notin gpu_log'.completed]_vars


----------------------------------------------------------------------------
(* The whole run: Engine::initialize step by step, Application::run with its
   frame loop, then main() returns and the Application is destroyed *)

\* std::unique_ptr<app::Application> app goes out of scope at main()'s return:
\* ~Application calls clean(), whose m_engine = nullptr runs Engine::~Engine
Application_destructor ==
    /\ pc = "exited"
    /\ pc' = "~Engine"
    /\ ip' = 1
    /\ UNCHANGED <<engine_state, init_done, returned, exit_code, loop_vars,
                   object_vars>>

ShutdownNext ==
    \/ createImageViews
    \/ createShaderModule
    \/ setupRenderPass
    \/ preconfigure
    \/ create
    \/ createPool
    \/ createBuffer
    \/ createVertexBuffer
    \/ createIndexBuffer
    \/ createFramebuffers
    \/ run \/ loop \/ vkDeviceWaitIdle \/ closing
    \/ get_time_limit \/ vkWaitForFences \/ vkResetFences
    \/ vkAcquireNextImageKHR \/ vkResetCommandBuffer \/ record
    \/ vkQueueSubmit \/ vkQueuePresentKHR \/ recordDuration \/ block_until
    \/ updateFrameIndexCall \/ incrementFrame
    \/ ImageAvailable \/ GpuBeginColourOutput \/ GpuComplete \/ PresentExecute
    \/ mainReturns
    \/ Application_destructor
    \/ SwapChain_destructor
    \/ Render_destructor
    \/ vkDestroyDescriptorPool
    \/ vmaDestroyAllocator
    \/ Destroy
    \/ vkDestroyInstance

ShutdownSpec == LifecycleInit /\ [][ShutdownNext]_vars

\* A submitted frame may still be executing: a batch is in the graphics queue
\* or a present request in the presents queue
DeviceBusy == graphics_queue # <<>> \/ presents_queue # <<>>

\* C36: no GPU-visible resource is destroyed while a submitted frame may still
\* be executing: once a destroy call has been made, and all the time
\* Engine::~Engine is under way or over, no queue of the device has work left.
C36_TeardownOnAnIdleDevice ==
    (vk_destroyed # <<>> \/ pc \in {"~Engine", "destroyed"}) => ~DeviceBusy

C36_Witness_TornDownAfterFrames ==
    /\ pc = "destroyed"
    /\ gpu_log.completed # {}
    /\ gpu_log.presented # {}
    /\ \E k \in 1..Len(vk_destroyed) :
          vk_destroyed[k].object = Swapchain /\ vk_destroyed[k].live


----------------------------------------------------------------------------
(* Properties of Engine::~Engine as a whole (LifecycleSpec) *)

\* The objects made from the logical device that ~SwapChain, ~Render with its
\* ~Pipeline and ~Command, and ~Engine itself hand to a destroy call
DeviceChildren ==
    {Swapchain, RenderPass, PipelineLayout, PipelineObject,
     ImageReadySemaphore, PresentDoneSemaphore, Fence, DescriptorPool,
     Allocator}
    \cup {ImageView(i) : i \in 1..MaxImages}
    \cup {Framebuffer(i) : i \in 1..MaxImages}
    \cup {CommandPool(c) : c \in {"graphics", "transfert"}}

\* C37: at shutdown the logical device is destroyed only after the swapchain,
\* the image views, the framebuffers, the pipeline objects, the sync
\* primitives, the command pools, the descriptor pool and the allocator have
\* been destroyed, and the instance after the logical device and the window
\* surface: once the device is gone none of these objects is alive, and once
\* the instance is gone neither the device nor the surface is.
C37_DeviceAfterItsObjectsInstanceLast ==
    /\ LogicalDevice \notin vk_live => vk_live \cap DeviceChildren = {}
    /\ Instance \notin vk_live =>
          /\ LogicalDevice \notin vk_live
          /\ Surface \notin vk_live

C37_Witness_EverythingTornDown ==
    /\ pc = "destroyed"
    /\ engine_state = "INITIALIZED"
    /\ Instance \notin vk_live
    /\ \A object \in {Swapchain, Framebuffer(MAX_BUFFERS), PipelineObject, Fence,
                      CommandPool("graphics"), Allocator, LogicalDevice,
                      Surface} :
          \E k \in 1..Len(vk_destroyed) :
             vk_destroyed[k].object = object /\ vk_destroyed[k].live

====
